---- MODULE Spec2Model ----
(***************************************************************************)
(* Room synchronization and admission-control engine of the multi-room     *)
(* chat server (rooms, bounded message log with monotonic ids, long-poll   *)
(* waiters, membership) and the browser client's delivery protocol         *)
(* (push, long-poll catch-up, snapshot resync, dedup by id).               *)
(***************************************************************************)
EXTENDS Integers, Sequences, FiniteSets, TLC

(***************************************************************************)
(* Universe of the model.                                                  *)
(***************************************************************************)
\* socket.io connections (socket.id); an id is never reused after it closed
Sockets == {"s1", "s2", "s3", "s4"}
\* ALLOWED_ROOMS
Rooms == {"main", "sub"}
\* HTTP long-poll requests (req/res pairs) issued by arbitrary callers
Reqs == {"q1", "q2"}
\* the long-poll request of the browser client's poll loop
ClientReq == "cq"
\* the snapshot request of the browser client's syncFullLog
SyncReq == "sq"
AllReqs == Reqs \cup {ClientReq, SyncReq}
NoSocket == "none"
NoRoom == "noroom"
\* clientId the page of each connection sends in its join payload
\* (s1 and s2 are two tabs of one device)
ClientIdOf ==
  [s \in Sockets |-> IF s = "s3" THEN "devB" ELSE IF s = "s4" THEN "devC" ELSE "devA"]
\* caller address of each connection
IpOf == [s \in Sockets |-> IF s = "s3" THEN "ip2" ELSE IF s = "s4" THEN "ip3" ELSE "ip1"]
Names == {"ann", "bob"}
Colors == {"red", "blue"}

\* maximum members of a room (10 in the source, scaled)
MAX_USERS == 2
\* retained entries of a room's chatLog (50 in the source, scaled)
LOG_WINDOW == 3
\* the model stops appending once a room has assigned this many ids
MaxId == 4
\* the clock advances at most this many times
MaxTicks == 1
\* socket events on their way to the page at one time
PushCap == 2

INACTIVITY_LIMIT_MS == 600000
TOPIC_COOLDOWN_MS == 5000
\* client.js: seenIds is pruned above 300 entries to its 200 largest; the chat
\* DOM keeps 50 children
SEEN_IDS_MAX == 300
SEEN_IDS_KEEP == 200
CHAT_DOM_MAX == 50
DEFAULT_MIN_INTERVAL_MS == 1000
\* Date.now() when the process starts: later than every interval above
StartTime == 2 * INACTIVITY_LIMIT_MS
\* the amounts by which the clock advances between two handlers
TickSteps == {INACTIVITY_LIMIT_MS}

(***************************************************************************)
(* State.                                                                  *)
(***************************************************************************)
VARIABLES
  now,                      \* Date.now()
  conn,                     \* socket -> "new" | "open" | "closed"
  roomSlug,                 \* socket.data.roomSlug
  ioRooms,                  \* socket -> socket.io rooms it has joined
  rooms,                    \* Map slug -> RoomState (created lazily)
  socketClientIds,          \* socket.id -> clientId
  lastLeaveByClientIdRoom,  \* <<clientId, room>> -> time
  lastActionTimeByKey,      \* <<room, clientId>> -> time
  lastTopicTimeByKey,       \* <<room, clientId>> -> time
  banlist,                  \* banlist.items
  moderation,               \* moderation policy
  topics,                   \* room -> is the topic pool of the room non-empty
  timers,                   \* pending deadline timers: request -> room of its waiter
  closeListeners,           \* registered close listeners: request -> room of its waiter
  reqState,                 \* request -> "unsent" | "open" | "closed"
  res,                      \* request -> sequence of bodies written to its response
  out,                      \* socket events emitted by the last handler
  ev,                       \* the last handler that ran, with its inputs
  \* one browser page (public/client.js), opened on room "main" over socket "s1"
  joined,                   \* joined
  lastSeenId,               \* lastSeenId (the poll cursor)
  seenIds,                  \* seenIds
  view,                     \* chatLog children in display order: the id of each
                            \* message, 0 for a message without id
  cConnected,               \* the page's socket "connect" handler has run
  cEmit,                    \* socket event the page emitted, not yet handled by the server
  pollpc,                   \* poll loop: "idle" | "sent" | "wait"
  pollSince,                \* the cursor the request in flight carries
  syncpc,                   \* syncFullLog: "none" | "sent" | "wait"
  pushq,                    \* socket events on their way to the page, oldest first
  received,                 \* history: ids delivered to the page over any channel
  shown,                    \* history: ids the page has displayed
  joinedAtId,               \* history: next id of the room when the server admitted
                            \* the page (0 before)
  departure,                \* history: <<clientId, room>> -> how and when the identity's
                            \* member last departed from the room
  sinceClear,               \* history: room -> the entries appended since the room
                            \* last lost its last member, oldest first
  asked,                    \* history: the room slug as the last request spelled it,
                            \* a sequence of characters
  ngRegexes,                \* moderation.ngRegexes: the policy's pattern list
  compiledNgRegexes,        \* the matchers compiled from a pattern list
  disk,                     \* file path -> content of the file, a sequence of characters
  job,                      \* the writeJsonSafe call in progress: its target and text
  alive,                    \* the server process is running
  owed                      \* history: id -> how far the page has got since a push
                            \* brought the id while a snapshot was in flight

srvVars == <<now, conn, roomSlug, ioRooms, rooms, socketClientIds,
             lastLeaveByClientIdRoom, lastActionTimeByKey, lastTopicTimeByKey,
             banlist, moderation, topics, timers, closeListeners, reqState, res,
             out, ev>>

cliVars == <<joined, lastSeenId, seenIds, view, cConnected, cEmit, pollpc, pollSince,
             syncpc, pushq, received, shown, joinedAtId>>

histVars == <<departure, sinceClear, asked>>

patternVars == <<ngRegexes, compiledNgRegexes>>

diskVars == <<disk, job, alive>>

adminVars == <<patternVars, diskVars, owed>>

(***************************************************************************)
(* Helpers on partial functions (JavaScript objects used as maps).         *)
(***************************************************************************)
Has(f, k) == k \in DOMAIN f
Put(f, k, v) == [x \in DOMAIN f \cup {k} |-> IF x = k THEN v ELSE f[x]]
Del(f, k) == [x \in DOMAIN f \ {k} |-> f[x]]
DelAll(f, ks) == [x \in DOMAIN f \ ks |-> f[x]]
EmptyMap == [x \in {} |-> 0]

\* fresh RoomState of getRoomState
NewRoomState ==
  [users |-> EmptyMap, typingUsers |-> {}, chatLog |-> <<>>,
   nextMessageId |-> 1, pollWaiters |-> {}, lastActivityTimes |-> EmptyMap]

\* getRoomState: the registry after the lookup (the room is created on first use)
getRoomState(rs, room) ==
  IF room \in DOMAIN rs THEN rs ELSE Put(rs, room, NewRoomState)

\* an allowed-room test that lets every slug pass
isRoomAllowed_Any(slug) == TRUE

\* isRoomAllowed(slug), applied to a slug that normalizeRoomSlug returned
isRoomAllowed(slug) == slug \in Rooms

\* the characters of [a-zA-Z0-9_-] that the modelled requests use
SafeChars == {"m", "a", "i", "n", "s", "u", "b", "z", "_", "-"}

\* the string a sequence of characters spells
RECURSIVE Spelled(_)
Spelled(chars) == IF chars = <<>> THEN "" ELSE Head(chars) \o Spelled(Tail(chars))

\* normalizeRoomSlug(slug): "main" for a missing slug, the characters outside
\* [a-zA-Z0-9_-] dropped, "main" when nothing is left
normalizeRoomSlug(chars) ==
  LET safe == Spelled(SelectSeq(chars, LAMBDA c : c \in SafeChars))
  IN IF safe = "" THEN "main" ELSE safe

\* the filter with the cursor itself included
Since_Inclusive(log, sinceId) == SelectSeq(log, LAMBDA m : m.id >= sinceId)

\* the news of a cursor listed newest first
Since_NewestFirst(log, sinceId) ==
  LET news == SelectSeq(log, LAMBDA m : m.id > sinceId)
  IN [i \in DOMAIN news |-> news[Len(news) + 1 - i]]

\* chatLog.filter((m) => m.id > sinceId)
Since(log, sinceId) == SelectSeq(log, LAMBDA m : m.id > sinceId)

IdsOf(log) == {log[i].id : i \in DOMAIN log}

\* the socket.io room: connections that joined it and are still connected
IoMembers(W, room) == {s \in Sockets : room \in W.ioRooms[s]}

\* the part of the server state that nested calls change, as one record
World ==
  [rooms |-> rooms, timers |-> timers, res |-> res, out |-> <<>>,
   socketClientIds |-> socketClientIds,
   lastLeaveByClientIdRoom |-> lastLeaveByClientIdRoom,
   conn |-> conn, ioRooms |-> ioRooms, banlist |-> banlist]

Commit(W) ==
  /\ rooms' = W.rooms
  /\ timers' = W.timers
  /\ res' = W.res
  /\ out' = W.out
  /\ socketClientIds' = W.socketClientIds
  /\ lastLeaveByClientIdRoom' = W.lastLeaveByClientIdRoom
  /\ conn' = W.conn
  /\ ioRooms' = W.ioRooms
  /\ banlist' = W.banlist

\* socket.emit(event, ...) to one connection
EmitTo(W, s, event, what) ==
  [W EXCEPT !.out = Append(@, [event |-> event, id |-> 0, to |-> {s},
                               room |-> NoRoom, fromId |-> NoSocket, what |-> what,
                               waitMs |-> 0])]

\* socket.emit("rate-limit", { waitMs }) to one connection
EmitWait(W, s, what, waitMs) ==
  [W EXCEPT !.out = Append(@, [event |-> "rate-limit", id |-> 0, to |-> {s},
                               room |-> NoRoom, fromId |-> NoSocket, what |-> what,
                               waitMs |-> waitMs])]

(***************************************************************************)
(* Message log.                                                            *)
(***************************************************************************)
\* the loop over the parked requests stopping at the first one it answers
waitersToAnswer_FirstOnly(waiters, log) ==
  LET hit == {w \in waiters : Len(Since(log, w.sinceId)) > 0}
  IN IF hit = {} THEN {} ELSE {CHOOSE w \in hit : TRUE}

\* for (const w of Array.from(st.pollWaiters)): the parked requests that have
\* news in the log, every one of them visited once
waitersToAnswer(waiters, log) == {w \in waiters : Len(Since(log, w.sinceId)) > 0}

\* a pushLog that keeps the window by refusing the newest entry
pushLog_DropsNewest(W, room, entry) ==
  LET rs == getRoomState(W.rooms, room)
      st == rs[room]
      e == [id |-> st.nextMessageId, type |-> entry.type]
      pushed == Append(st.chatLog, e)
      log == IF Len(pushed) > LOG_WINDOW THEN st.chatLog ELSE pushed
  IN [W EXCEPT !.rooms = [rs EXCEPT ![room] =
                            [st EXCEPT !.chatLog = log,
                                       !.nextMessageId = st.nextMessageId + 1]]]

\* a pushLog that makes room in the window by removing its second entry
pushLog_DropsSecond(W, room, entry) ==
  LET rs == getRoomState(W.rooms, room)
      st == rs[room]
      e == [id |-> st.nextMessageId, type |-> entry.type]
      pushed == Append(st.chatLog, e)
      log == IF Len(pushed) > LOG_WINDOW
               THEN <<Head(pushed)>> \o Tail(Tail(pushed)) ELSE pushed
  IN [W EXCEPT !.rooms = [rs EXCEPT ![room] =
                            [st EXCEPT !.chatLog = log,
                                       !.nextMessageId = st.nextMessageId + 1]]]

\* pushLog(room, entry): assign the next id, append, truncate the window and
\* answer the parked long-poll requests that now have news
pushLog(W, room, entry) ==
  LET rs == getRoomState(W.rooms, room)
      st == rs[room]
      e == [id |-> st.nextMessageId, type |-> entry.type]
      pushed == Append(st.chatLog, e)
      log == IF Len(pushed) > LOG_WINDOW THEN Tail(pushed) ELSE pushed
      hit == waitersToAnswer(st.pollWaiters, log)
      hitSince == [q \in {w.q : w \in hit} |-> (CHOOSE w \in hit : w.q = q).sinceId]
  IN [W EXCEPT !.rooms = [rs EXCEPT ![room] =
                            [st EXCEPT !.chatLog = log,
                                       !.nextMessageId = st.nextMessageId + 1,
                                       !.pollWaiters = st.pollWaiters \ hit]],
               !.timers = DelAll(W.timers, DOMAIN hitSince),
               !.res = [q \in DOMAIN W.res |->
                          IF q \in DOMAIN hitSince
                            THEN Append(W.res[q], Since(log, hitSince[q]))
                            ELSE W.res[q]]]

EventOf(type) ==
  IF type = "topic" THEN "topic-result"
  ELSE IF type = "system" THEN "system-message"
  ELSE "chat-message"

\* emitLog that answers only the acting socket instead of the whole room
emitLog_ToSenderOnly(W, type, what, room, fromId) ==
  LET W1 == pushLog(W, room, [type |-> type])
      log == W1.rooms[room].chatLog
      msg == log[Len(log)]
  IN [W1 EXCEPT !.out = Append(@, [event |-> EventOf(type), id |-> msg.id,
                                   to |-> IoMembers(W1, room) \cap {fromId}, room |-> room,
                                   fromId |-> fromId, what |-> what, waitMs |-> 0])]

\* emitLog(type, payload, opts): msg = pushLog(...), then the socket event
\* carrying msg.id to the room
emitLog(W, type, what, room, fromId) ==
  LET W1 == pushLog(W, room, [type |-> type])
      log == W1.rooms[room].chatLog
      msg == log[Len(log)]
  IN [W1 EXCEPT !.out = Append(@, [event |-> EventOf(type), id |-> msg.id,
                                   to |-> IoMembers(W1, room), room |-> room,
                                   fromId |-> fromId, what |-> what, waitMs |-> 0])]

emitSystem(W, room, what) == emitLog(W, "system", what, room, NoSocket)

touchActivity(W, room, s) ==
  LET rs == getRoomState(W.rooms, room)
  IN [W EXCEPT !.rooms = [rs EXCEPT ![room].lastActivityTimes = Put(@, s, now)]]

\* clearIfEmpty with a slip: clearing the log also restarts the id counter
clearIfEmpty_ResetsCounter(W, room) ==
  IF DOMAIN W.rooms[room].users = {}
    THEN [W EXCEPT !.rooms[room].chatLog = <<>>, !.rooms[room].typingUsers = {},
                   !.rooms[room].nextMessageId = 1]
    ELSE W

\* clearIfEmpty with a slip: the typing set is cleared, the log is kept
clearIfEmpty_KeepsLog(W, room) ==
  IF DOMAIN W.rooms[room].users = {}
    THEN [W EXCEPT !.rooms[room].typingUsers = {}]
    ELSE W

\* if (Object.keys(st.users).length === 0) { chatLog.length = 0; typingUsers.clear() }
clearIfEmpty(W, room) ==
  IF DOMAIN W.rooms[room].users = {}
    THEN [W EXCEPT !.rooms[room].chatLog = <<>>, !.rooms[room].typingUsers = {}]
    ELSE W

\* a removal that forgets the typing set and the activity table
removeMember_UsersOnly(W, room, s) ==
  [W EXCEPT !.rooms[room].users = Del(@, s)]

\* delete st.users[id]; st.typingUsers.delete(id); delete st.lastActivityTimes[id]
removeMember(W, room, s) ==
  [W EXCEPT !.rooms[room].users = Del(@, s),
            !.rooms[room].typingUsers = @ \ {s},
            !.rooms[room].lastActivityTimes = Del(@, s)]

\* the room has ids left to assign within the bound of the model
CanAppend(room, k) ==
  getRoomState(rooms, room)[room].nextMessageId + k - 1 <= MaxId

(***************************************************************************)
(* Bans.                                                                   *)
(***************************************************************************)
\* cleanupExpiredBans: items without expiry or with expiresAt > now remain
cleanupExpiredBans(W) ==
  [W EXCEPT !.banlist = {it \in W.banlist : it.expiresAt = 0 \/ it.expiresAt > now}]

\* a ban test that looks at the clientId entries only
isBanned_ClientIdOnly(W, clientId, ip) ==
  \E it \in cleanupExpiredBans(W).banlist : it.type = "clientId" /\ it.value = clientId

\* isBanned(clientId, ip), evaluated after cleanupExpiredBans
isBanned(W, clientId, ip) ==
  \E it \in cleanupExpiredBans(W).banlist :
     \/ (it.type = "clientId" /\ it.value = clientId)
     \/ (it.type = "ip" /\ it.value = ip)

(***************************************************************************)
(* socket.io connection handlers.                                          *)
(***************************************************************************)
\* no message text
NoText == [len |-> 0, pii |-> FALSE, ng |-> FALSE, urls |-> 0, blocked |-> FALSE]

NoEv ==
  [op |-> "init", s |-> NoSocket, room |-> NoRoom, q |-> "none", arg |-> 0,
   result |-> "none", text |-> NoText]
Ev(op, s, room, result) == [NoEv EXCEPT !.op = op, !.s = s, !.room = room, !.result = result]
EvText(op, s, room, result, text) == [Ev(op, s, room, result) EXCEPT !.text = text]
EvReq(op, q, room, arg, result) ==
  [NoEv EXCEPT !.op = op, !.q = q, !.room = room, !.arg = arg, !.result = result]

\* socket.on("disconnect"): the handler body, also run by socket.disconnect(true)
onDisconnect(W, s) ==
  LET W0 == [W EXCEPT !.conn[s] = "closed", !.ioRooms[s] = {}]
      room == roomSlug[s]
  IN IF room = NoRoom \/ ~isRoomAllowed(room) THEN W0
     ELSE
       LET W1 == [W0 EXCEPT !.rooms = getRoomState(W0.rooms, room)]
           isUser == Has(W1.rooms[room].users, s)
           W2 == IF Has(W1.socketClientIds, s)
                   THEN [W1 EXCEPT
                           !.lastLeaveByClientIdRoom =
                              Put(@, <<W1.socketClientIds[s], room>>, now),
                           !.socketClientIds = Del(@, s)]
                   ELSE W1
       IN IF isUser THEN clearIfEmpty(removeMember(W2, room, s), room) ELSE W2

\* io.on("connection")
Connect(s) ==
  /\ conn[s] = "new"
  /\ conn' = [conn EXCEPT ![s] = "open"]
  /\ out' = <<>>
  /\ ev' = Ev("connect", s, NoRoom, "ok")
  /\ UNCHANGED <<now, roomSlug, ioRooms, rooms, socketClientIds,
                 lastLeaveByClientIdRoom, lastActionTimeByKey, lastTopicTimeByKey,
                 banlist, moderation, topics, timers, closeListeners, reqState, res>>

\* the capacity test with the comparison off by one
roomIsFull_OffByOne(st) == Cardinality(DOMAIN st.users) > MAX_USERS

\* currentCount >= MAX_USERS
roomIsFull(st) == Cardinality(DOMAIN st.users) >= MAX_USERS

\* a guard that counts the repeated join as activity of the member
alreadyJoined_Touches(W, room, s) ==
  [W |-> touchActivity(W, room, s), result |-> "already", joined |-> FALSE]

\* if (st.users[socket.id]) return;
alreadyJoined(W, room, s) == [W |-> W, result |-> "already", joined |-> FALSE]

\* what the join handler does to the nested state, and its outcome
joinResult(s, room, name, color, clientIdIn) ==
  IF ~isRoomAllowed(room)
    THEN [W |-> onDisconnect(EmitTo(World, s, "system-message", "no-such-room"), s),
          result |-> "no-such-room", joined |-> FALSE]
  ELSE
    LET W0 == [World EXCEPT !.rooms = getRoomState(World.rooms, room)]
        st == W0.rooms[room]
    IN IF Has(st.users, s)
         THEN alreadyJoined(W0, room, s)
       ELSE IF roomIsFull(st)
         THEN [W |-> EmitTo(W0, s, "room-full", "room-full"),
               result |-> "room-full", joined |-> FALSE]
       ELSE
         LET clientId == IF clientIdIn = "" THEN s ELSE clientIdIn
             W1 == [W0 EXCEPT !.socketClientIds = Put(@, s, clientId)]
         IN IF isBanned(W1, clientId, IpOf[s])
              THEN [W |-> onDisconnect(
                            EmitTo(cleanupExpiredBans(W1), s, "system-message", "banned"), s),
                    result |-> "banned", joined |-> FALSE]
            ELSE
              LET W2 == [cleanupExpiredBans(W1) EXCEPT
                           !.rooms[room].users = Put(@, s, [name |-> name, color |-> color]),
                           !.ioRooms[s] = @ \cup {room}]
                  key == <<clientId, room>>
                  shouldAnnounceJoin ==
                    ~(/\ Has(W2.lastLeaveByClientIdRoom, key)
                      /\ now - W2.lastLeaveByClientIdRoom[key] < INACTIVITY_LIMIT_MS)
                  W3 == IF shouldAnnounceJoin THEN emitSystem(W2, room, "joined") ELSE W2
                  W4 == IF Len(W3.rooms[room].chatLog) > 0
                          THEN EmitTo(W3, s, "chat-log", "chat-log") ELSE W3
              IN [W |-> touchActivity(W4, room, s),
                  result |-> IF shouldAnnounceJoin THEN "joined" ELSE "resumed",
                  joined |-> TRUE]

\* socket.on("join")
Join(s, room, name, color, clientIdIn) ==
  /\ conn[s] = "open"
  /\ LET r == joinResult(s, room, name, color, clientIdIn)
     IN /\ (r.result = "joined" => CanAppend(room, 1))
        /\ Commit(r.W)
        /\ roomSlug' = IF r.joined THEN [roomSlug EXCEPT ![s] = room] ELSE roomSlug
        /\ ev' = Ev("join", s, room, r.result)
  /\ UNCHANGED <<now, lastActionTimeByKey, lastTopicTimeByKey, moderation, topics,
                 closeListeners, reqState>>

\* socket.on("leave"): the handler's effect
onLeave(W, s) ==
  LET room == roomSlug[s]
  IN IF room = NoRoom \/ ~isRoomAllowed(room) THEN W
     ELSE
       LET W0 == [W EXCEPT !.rooms = getRoomState(W.rooms, room)]
       IN IF ~Has(W0.rooms[room].users, s) THEN W0
          ELSE
            LET W1 == IF Has(W0.socketClientIds, s)
                        THEN [W0 EXCEPT
                                !.lastLeaveByClientIdRoom =
                                   Put(@, <<W0.socketClientIds[s], room>>, now),
                                !.socketClientIds = Del(@, s)]
                        ELSE W0
                W2 == [removeMember(W1, room, s) EXCEPT !.ioRooms[s] = @ \ {room}]
                W3 == emitSystem(W2, room, "left")
            IN clearIfEmpty(W3, room)

\* socket.on("leave")
Leave(s) ==
  /\ conn[s] = "open"
  /\ LET room == roomSlug[s]
         left == /\ room # NoRoom
                 /\ isRoomAllowed(room)
                 /\ Has(getRoomState(rooms, room)[room].users, s)
     IN /\ left => CanAppend(room, 1)
        /\ Commit(onLeave(World, s))
        /\ ev' = Ev("leave", s, room, IF left THEN "left" ELSE "ignored")
  /\ UNCHANGED <<now, roomSlug, lastActionTimeByKey, lastTopicTimeByKey, moderation,
                 topics, closeListeners, reqState>>

\* socket.on("disconnect"), the connection having dropped
Disconnect(s) ==
  /\ conn[s] = "open"
  /\ Commit(onDisconnect(World, s))
  /\ ev' = Ev("disconnect", s, roomSlug[s], "ok")
  /\ UNCHANGED <<now, roomSlug, lastActionTimeByKey, lastTopicTimeByKey, moderation,
                 topics, closeListeners, reqState>>

\* time passes between two handlers
Tick(d) ==
  /\ now + d <= StartTime + MaxTicks * INACTIVITY_LIMIT_MS
  /\ now' = now + d
  /\ out' = <<>>
  /\ ev' = Ev("tick", NoSocket, NoRoom, "ok")
  /\ UNCHANGED <<conn, roomSlug, ioRooms, rooms, socketClientIds,
                 lastLeaveByClientIdRoom, lastActionTimeByKey, lastTopicTimeByKey,
                 banlist, moderation, topics, timers, closeListeners, reqState, res>>

(***************************************************************************)
(* Member actions.                                                         *)
(***************************************************************************)
\* the room of a connection's event, when the handler's guards let it through:
\* socket.data.roomSlug is set and allowed, and the connection is in its users
ActingMember(s) ==
  /\ roomSlug[s] # NoRoom
  /\ isRoomAllowed(roomSlug[s])
  /\ Has(getRoomState(rooms, roomSlug[s])[roomSlug[s]].users, s)

\* a handler that consumes an id of the room before it returns at a guard
Ignored_ConsumesId(op, s) ==
  /\ rooms' = IF roomSlug[s] # NoRoom /\ isRoomAllowed(roomSlug[s])
                THEN [getRoomState(rooms, roomSlug[s]) EXCEPT
                        ![roomSlug[s]].nextMessageId = @ + 1]
                ELSE rooms
  /\ out' = <<>>
  /\ ev' = Ev(op, NoSocket, NoRoom, "ignored")
  /\ UNCHANGED <<now, conn, roomSlug, ioRooms, socketClientIds,
                 lastLeaveByClientIdRoom, lastActionTimeByKey, lastTopicTimeByKey,
                 banlist, moderation, topics, timers, closeListeners, reqState, res>>

\* the handler returned at one of its guards; getRoomState may have created the room
Ignored(op, s) ==
  /\ rooms' = IF roomSlug[s] # NoRoom /\ isRoomAllowed(roomSlug[s])
                THEN getRoomState(rooms, roomSlug[s]) ELSE rooms
  /\ out' = <<>>
  /\ ev' = Ev(op, NoSocket, NoRoom, "ignored")
  /\ UNCHANGED <<now, conn, roomSlug, ioRooms, socketClientIds,
                 lastLeaveByClientIdRoom, lastActionTimeByKey, lastTopicTimeByKey,
                 banlist, moderation, topics, timers, closeListeners, reqState, res>>

\* socket.on("change-name")
ChangeName(s, newName) ==
  /\ conn[s] = "open"
  /\ IF ~ActingMember(s) THEN Ignored("change-name", s)
     ELSE
       LET room == roomSlug[s]
           user == rooms[room].users[s]
       IN IF newName = "" \/ newName = user.name THEN Ignored("change-name", s)
          ELSE
            LET W1 == [World EXCEPT !.rooms[room].users[s].name = newName]
                W2 == touchActivity(W1, room, s)
            IN /\ CanAppend(room, 1)
               /\ Commit(emitSystem(W2, room, "renamed"))
               /\ ev' = Ev("change-name", s, room, "ok")
               /\ UNCHANGED <<now, roomSlug, lastActionTimeByKey, lastTopicTimeByKey,
                              moderation, topics, closeListeners, reqState>>

\* socket.on("change-color")
ChangeColor(s, newColor) ==
  /\ conn[s] = "open"
  /\ IF ~ActingMember(s) \/ newColor = "" THEN Ignored("change-color", s)
     ELSE
       LET room == roomSlug[s]
           W1 == [World EXCEPT !.rooms[room].users[s].color = newColor]
           W2 == touchActivity(W1, room, s)
       IN /\ CanAppend(room, 1)
          /\ Commit(emitSystem(W2, room, "recolored"))
          /\ ev' = Ev("change-color", s, room, "ok")
          /\ UNCHANGED <<now, roomSlug, lastActionTimeByKey, lastTopicTimeByKey,
                         moderation, topics, closeListeners, reqState>>

\* a rate limiter that always asks for the whole interval
checkRateLimit_WholeInterval(room, clientId) ==
  LET k == <<room, clientId>>
      last == IF Has(lastActionTimeByKey, k) THEN lastActionTimeByKey[k] ELSE 0
  IN IF now - last < moderation.minIntervalMs THEN moderation.minIntervalMs ELSE 0

\* checkRateLimit(room, clientId): the wait it returns (0 when accepted)
checkRateLimit(room, clientId) ==
  LET k == <<room, clientId>>
      last == IF Has(lastActionTimeByKey, k) THEN lastActionTimeByKey[k] ELSE 0
      diff == now - last
      min == moderation.minIntervalMs
  IN IF diff < min THEN min - diff ELSE 0

\* the clock table after checkRateLimit
rateLimitClock(room, clientId) ==
  IF checkRateLimit(room, clientId) > 0 THEN lastActionTimeByKey
  ELSE Put(lastActionTimeByKey, <<room, clientId>>, now)

\* a message text, by what the moderation checks see of it
TxtOk == [len |-> 5, pii |-> FALSE, ng |-> FALSE, urls |-> 0, blocked |-> FALSE]
TxtEmpty == [len |-> 0, pii |-> FALSE, ng |-> FALSE, urls |-> 0, blocked |-> FALSE]
TxtNg == [len |-> 5, pii |-> FALSE, ng |-> TRUE, urls |-> 0, blocked |-> FALSE]
TxtLongNg == [len |-> 301, pii |-> FALSE, ng |-> TRUE, urls |-> 0, blocked |-> FALSE]
TxtPii == [len |-> 20, pii |-> TRUE, ng |-> FALSE, urls |-> 0, blocked |-> FALSE]
TxtManyUrls == [len |-> 90, pii |-> FALSE, ng |-> FALSE, urls |-> 4, blocked |-> FALSE]
TxtBlockedUrl == [len |-> 20, pii |-> FALSE, ng |-> FALSE, urls |-> 1, blocked |-> TRUE]
Texts == {TxtOk, TxtEmpty, TxtNg, TxtLongNg, TxtPii, TxtManyUrls, TxtBlockedUrl}

DefaultModeration ==
  [maxMsgLen |-> 300, minIntervalMs |-> DEFAULT_MIN_INTERVAL_MS, maxUrlsPerMsg |-> 3,
   blockPII |-> TRUE]

\* the moderation checks with the banned-word test moved to the front
moderationVerdict_NgFirst(text) ==
  IF text.ng THEN "ng-word"
  ELSE IF moderation.maxMsgLen > 0 /\ text.len > moderation.maxMsgLen THEN "too-long"
  ELSE IF moderation.blockPII /\ text.pii THEN "personal-info"
  ELSE IF moderation.maxUrlsPerMsg >= 0 /\ text.urls > moderation.maxUrlsPerMsg
    THEN "too-many-urls"
  ELSE IF text.urls > 0 /\ text.blocked THEN "blocked-domain"
  ELSE "ok"

\* the moderation checks of send-message, in the handler's order
moderationVerdict(text) ==
  IF moderation.maxMsgLen > 0 /\ text.len > moderation.maxMsgLen THEN "too-long"
  ELSE IF moderation.blockPII /\ text.pii THEN "personal-info"
  ELSE IF text.ng THEN "ng-word"
  ELSE IF moderation.maxUrlsPerMsg >= 0 /\ text.urls > moderation.maxUrlsPerMsg
    THEN "too-many-urls"
  ELSE IF text.urls > 0 /\ text.blocked THEN "blocked-domain"
  ELSE "ok"

\* a moderation notice that goes to everyone in the sender's room
Rejected_ToRoom(s, text, what) ==
  /\ Commit([World EXCEPT !.out =
               <<[event |-> "system-message", id |-> 0,
                  to |-> IoMembers(World, roomSlug[s]), room |-> NoRoom,
                  fromId |-> NoSocket, what |-> what, waitMs |-> 0]>>])
  /\ ev' = EvText("send-message", s, roomSlug[s], what, text)
  /\ UNCHANGED <<now, roomSlug, lastActionTimeByKey, lastTopicTimeByKey,
                 moderation, topics, closeListeners, reqState>>

\* send-message stopped by a moderation check: socket.emit("system-message", ...)
\* to the caller, then return
Rejected(s, text, what) ==
  /\ Commit(EmitTo(World, s, "system-message", what))
  /\ ev' = EvText("send-message", s, roomSlug[s], what, text)
  /\ UNCHANGED <<now, roomSlug, lastActionTimeByKey, lastTopicTimeByKey,
                 moderation, topics, closeListeners, reqState>>

\* a handler that tells the caller alone how long to wait and appends nothing
RateLimited(op, s, what, waitMs) ==
  /\ Commit(EmitWait(World, s, what, waitMs))
  /\ ev' = Ev(op, s, roomSlug[s], what)
  /\ UNCHANGED <<now, roomSlug, lastActionTimeByKey, lastTopicTimeByKey,
                 moderation, topics, closeListeners, reqState>>

\* socket.on("send-message")
SendMessage(s, text) ==
  /\ conn[s] = "open"
  /\ IF ~ActingMember(s) \/ text.len = 0 THEN Ignored("send-message", s)
     ELSE IF moderationVerdict(text) # "ok"
       THEN Rejected(s, text, moderationVerdict(text))
     ELSE
       LET room == roomSlug[s]
           clientId == IF Has(socketClientIds, s) THEN socketClientIds[s] ELSE s
       IN IF checkRateLimit(room, clientId) > 0
            THEN /\ Commit(EmitWait(World, s, "rate-limit", checkRateLimit(room, clientId)))
                 /\ ev' = EvText("send-message", s, room, "rate-limit", text)
                 /\ UNCHANGED <<now, roomSlug, lastActionTimeByKey, lastTopicTimeByKey,
                                moderation, topics, closeListeners, reqState>>
          ELSE
            /\ CanAppend(room, 1)
            /\ lastActionTimeByKey' = rateLimitClock(room, clientId)
            /\ Commit(emitLog(touchActivity(World, room, s), "chat", "chat", room, s))
            /\ ev' = EvText("send-message", s, room, "ok", text)
            /\ UNCHANGED <<now, roomSlug, lastTopicTimeByKey, moderation, topics,
                           closeListeners, reqState>>

\* socket.on("roll-1d6") and socket.on("roll-dice"): the two handlers differ in
\* the text of the entry only
rollHandler(op, s) ==
  /\ conn[s] = "open"
  /\ IF ~ActingMember(s) THEN Ignored(op, s)
     ELSE
       LET room == roomSlug[s]
           clientId == IF Has(socketClientIds, s) THEN socketClientIds[s] ELSE s
       IN IF checkRateLimit(room, clientId) > 0
            THEN RateLimited(op, s, "rate-limit", checkRateLimit(room, clientId))
          ELSE
            /\ CanAppend(room, 1)
            /\ lastActionTimeByKey' = rateLimitClock(room, clientId)
            /\ Commit(emitLog(World, "dice", op, room, s))
            /\ ev' = Ev(op, s, room, "ok")
            /\ UNCHANGED <<now, roomSlug, lastTopicTimeByKey, moderation, topics,
                           closeListeners, reqState>>

Roll1d6(s) == rollHandler("roll-1d6", s)
RollDice(s) == rollHandler("roll-dice", s)

\* a draw-topic handler that tests and restarts the generic action clock
DrawTopic_GenericClock(s) ==
  /\ conn[s] = "open"
  /\ IF ~ActingMember(s) \/ ~Has(socketClientIds, s) THEN Ignored("draw-topic", s)
     ELSE
       LET room == roomSlug[s]
           clientId == socketClientIds[s]
       IN IF checkRateLimit(room, clientId) > 0
            THEN RateLimited("draw-topic", s, "topic-cooldown",
                             checkRateLimit(room, clientId))
          ELSE
            /\ lastActionTimeByKey' = rateLimitClock(room, clientId)
            /\ IF ~topics[room]
                 THEN /\ Commit(World) /\ ev' = Ev("draw-topic", s, room, "no-topic")
                 ELSE /\ CanAppend(room, 1)
                      /\ Commit(emitLog(World, "topic", "topic", room, NoSocket))
                      /\ ev' = Ev("draw-topic", s, room, "ok")
            /\ UNCHANGED <<now, roomSlug, lastTopicTimeByKey, moderation, topics,
                           closeListeners, reqState>>

\* socket.on("draw-topic")
DrawTopic(s) ==
  /\ conn[s] = "open"
  /\ IF ~ActingMember(s) \/ ~Has(socketClientIds, s) THEN Ignored("draw-topic", s)
     ELSE
       LET room == roomSlug[s]
           k == <<room, socketClientIds[s]>>
           last == IF Has(lastTopicTimeByKey, k) THEN lastTopicTimeByKey[k] ELSE 0
           diff == now - last
       IN IF diff < TOPIC_COOLDOWN_MS
            THEN RateLimited("draw-topic", s, "topic-cooldown", TOPIC_COOLDOWN_MS - diff)
          ELSE
            /\ lastTopicTimeByKey' = Put(lastTopicTimeByKey, k, now)
            /\ IF ~topics[room]
                 THEN /\ Commit(World) /\ ev' = Ev("draw-topic", s, room, "no-topic")
                 ELSE /\ CanAppend(room, 1)
                      /\ Commit(emitLog(World, "topic", "topic", room, NoSocket))
                      /\ ev' = Ev("draw-topic", s, room, "ok")
            /\ UNCHANGED <<now, roomSlug, lastActionTimeByKey, moderation, topics,
                           closeListeners, reqState>>

\* socket.on("typing")
Typing(s, isTyping) ==
  /\ conn[s] = "open"
  /\ IF ~ActingMember(s) THEN Ignored("typing", s)
     ELSE
       LET room == roomSlug[s]
           W1 == IF isTyping
                   THEN touchActivity([World EXCEPT !.rooms[room].typingUsers = @ \cup {s}],
                                      room, s)
                   ELSE [World EXCEPT !.rooms[room].typingUsers = @ \ {s}]
       IN /\ Commit(W1)
          /\ ev' = Ev("typing", s, room, "ok")
          /\ UNCHANGED <<now, roomSlug, lastActionTimeByKey, lastTopicTimeByKey,
                         moderation, topics, closeListeners, reqState>>

(***************************************************************************)
(* Inactivity sweep and administrative kick.                               *)
(***************************************************************************)
\* one iteration of the sweep's inner loop, for an entry of lastActivityTimes
\* that was expired when the loop started
sweepOne(W, room, s) ==
  LET st == W.rooms[room]
  IN IF ~Has(st.users, s)
       THEN [W EXCEPT !.rooms[room].lastActivityTimes = Del(@, s)]
     ELSE
       LET W1 == removeMember(W, room, s)
           W2 == IF Has(W1.socketClientIds, s)
                   THEN [W1 EXCEPT
                           !.lastLeaveByClientIdRoom =
                              Put(@, <<W1.socketClientIds[s], room>>, now),
                           !.socketClientIds = Del(@, s)]
                   ELSE W1
           W3 == IF W2.conn[s] = "open"
                   THEN [EmitTo(W2, s, "force-leave", "timeout") EXCEPT
                           !.ioRooms[s] = @ \ {room}]
                   ELSE W2
       IN clearIfEmpty(emitSystem(W3, room, "timeout"), room)

\* the sweep over the visits <<room, socket>> in the order given
RECURSIVE sweepAll(_, _)
sweepAll(W, visits) ==
  IF visits = <<>> THEN W
  ELSE sweepAll(sweepOne(W, Head(visits)[1], Head(visits)[2]), Tail(visits))

\* the expiry test with the limit itself excluded
Expired_Strict(room) ==
  {s \in DOMAIN rooms[room].lastActivityTimes :
     now - rooms[room].lastActivityTimes[s] > INACTIVITY_LIMIT_MS}

\* entries of a room's lastActivityTimes that the sweep acts on
Expired(room) ==
  {s \in DOMAIN rooms[room].lastActivityTimes :
     ~(now - rooms[room].lastActivityTimes[s] < INACTIVITY_LIMIT_MS)}

ExpiredVisits == {<<r, s>> : r \in DOMAIN rooms, s \in Sockets} \cap
                 {v \in (DOMAIN rooms) \X Sockets : v[2] \in Expired(v[1])}

\* the orders in which the sweep can visit: room after room, as the Map iterates
VisitOrders ==
  {o \in [1..Cardinality(ExpiredVisits) -> ExpiredVisits] :
     /\ \A i, j \in DOMAIN o : i # j => o[i] # o[j]
     /\ \A i, j, k \in DOMAIN o : (i < j /\ j < k /\ o[i][1] = o[k][1]) => o[j][1] = o[i][1]}

\* setInterval(..., 60 * 1000): one run of the inactivity sweep
Sweep ==
  /\ ExpiredVisits # {}
  /\ \A r \in DOMAIN rooms : CanAppend(r, Cardinality(Expired(r)))
  /\ \E o \in VisitOrders :
       /\ Commit(sweepAll(World, o))
       /\ ev' = Ev("sweep", NoSocket, NoRoom, "ok")
  /\ UNCHANGED <<now, roomSlug, lastActionTimeByKey, lastTopicTimeByKey, moderation,
                 topics, closeListeners, reqState>>

\* adminKickSocket(room, socketId, reasonText)
adminKickSocket(W, room, s, reasonText) ==
  LET W0 == [W EXCEPT !.rooms = getRoomState(W.rooms, room)]
  IN IF ~Has(W0.rooms[room].users, s)
       THEN IF W0.conn[s] = "open" THEN onDisconnect(W0, s) ELSE W0
     ELSE
       LET W1 == removeMember(W0, room, s)
           W2 == IF Has(W1.socketClientIds, s)
                   THEN [W1 EXCEPT
                           !.lastLeaveByClientIdRoom =
                              Put(@, <<W1.socketClientIds[s], room>>, now),
                           !.socketClientIds = Del(@, s)]
                   ELSE W1
           W3 == IF W2.conn[s] = "open"
                   THEN onDisconnect(
                          [EmitTo(W2, s, "force-leave", reasonText) EXCEPT
                             !.ioRooms[s] = @ \ {room}], s)
                   ELSE W2
       IN clearIfEmpty(emitSystem(W3, room, "kicked"), room)

\* POST /api/ban/online { room, socketId, mode, minutes }
BanOnline(room, s, mode, minutes) ==
  /\ isRoomAllowed(room)
  /\ conn[s] # "new"
  /\ LET clientId == IF Has(socketClientIds, s) THEN socketClientIds[s] ELSE ""
         ip == IF conn[s] = "open" THEN IpOf[s] ELSE ""
         expiresAt == IF minutes > 0 THEN now + minutes * 60 * 1000 ELSE 0
         W0 == cleanupExpiredBans(World)
         add == {[type |-> "clientId", value |-> clientId, expiresAt |-> expiresAt] :
                   x \in {y \in {1} : mode \in {"clientId", "both"} /\ clientId # ""}}
                \cup
                {[type |-> "ip", value |-> ip, expiresAt |-> expiresAt] :
                   x \in {y \in {1} : mode \in {"ip", "both"} /\ ip # ""}}
         fresh == {b \in add : ~\E it \in W0.banlist :
                                   it.type = b.type /\ it.value = b.value}
         W1 == [W0 EXCEPT !.banlist = @ \cup fresh]
     IN /\ (clientId # "" \/ ip # "")
        /\ (Has(getRoomState(rooms, room)[room].users, s) => CanAppend(room, 1))
        /\ Commit(adminKickSocket(W1, room, s, "banned"))
        /\ ev' = Ev("ban-online", s, room,
                    IF Has(getRoomState(rooms, room)[room].users, s)
                      THEN "kicked" ELSE "user not found")
  /\ UNCHANGED <<now, roomSlug, lastActionTimeByKey, lastTopicTimeByKey, moderation,
                 topics, closeListeners, reqState>>

\* PUT /api/moderation: the policy is replaced by the one in the body
PutModeration(policy) ==
  /\ moderation' = policy
  /\ out' = <<>>
  /\ ev' = Ev("put-moderation", NoSocket, NoRoom, "ok")
  /\ UNCHANGED <<now, conn, roomSlug, ioRooms, rooms, socketClientIds,
                 lastLeaveByClientIdRoom, lastActionTimeByKey, lastTopicTimeByKey,
                 banlist, topics, timers, closeListeners, reqState, res>>

\* a ban that also takes the members it matches out of every room
PostBan_RemovesMembers(type, value, expiresAt) ==
  LET hit == {s \in Sockets :
                \/ type = "clientId" /\ Has(socketClientIds, s) /\ socketClientIds[s] = value
                \/ type = "ip" /\ conn[s] = "open" /\ IpOf[s] = value}
      W0 == cleanupExpiredBans(World)
  IN /\ type \in {"clientId", "ip"}
     /\ value # ""
     /\ Commit([W0 EXCEPT
                  !.banlist = @ \cup {[type |-> type, value |-> value,
                                       expiresAt |-> expiresAt]},
                  !.rooms = [r \in DOMAIN W0.rooms |->
                               [W0.rooms[r] EXCEPT !.users = DelAll(@, hit)]]])
     /\ ev' = Ev("ban", NoSocket, NoRoom, "ok")
     /\ UNCHANGED <<now, roomSlug, lastActionTimeByKey, lastTopicTimeByKey, moderation,
                    topics, closeListeners, reqState>>

\* POST /api/ban { type, value, expiresAt }: expiresAt 0 stands for no expiry
PostBan(type, value, expiresAt) ==
  /\ type \in {"clientId", "ip"}
  /\ value # ""
  /\ Commit([cleanupExpiredBans(World) EXCEPT
               !.banlist = @ \cup {[type |-> type, value |-> value,
                                    expiresAt |-> expiresAt]}])
  /\ ev' = Ev("ban", NoSocket, NoRoom, "ok")
  /\ UNCHANGED <<now, roomSlug, lastActionTimeByKey, lastTopicTimeByKey, moderation,
                 topics, closeListeners, reqState>>

(***************************************************************************)
(* HTTP catch-up interface.                                                *)
(***************************************************************************)
\* GET /api/log: the handler's effect on the server
getLog(q, room) ==
  /\ reqState[q] = "unsent"
  /\ isRoomAllowed(room)
  /\ rooms' = getRoomState(rooms, room)
  /\ res' = [res EXCEPT ![q] = Append(@, rooms'[room].chatLog)]
  /\ reqState' = [reqState EXCEPT ![q] = "closed"]
  /\ out' = <<>>
  /\ ev' = EvReq("log", q, room, 0, "ok")
  /\ UNCHANGED <<now, conn, roomSlug, ioRooms, socketClientIds,
                 lastLeaveByClientIdRoom, lastActionTimeByKey, lastTopicTimeByKey,
                 banlist, moderation, topics, timers, closeListeners>>

\* GET /api/poll: answer at once when there is news, park the request otherwise
poll(q, room, sinceId) ==
  /\ reqState[q] = "unsent"
  /\ isRoomAllowed(room)
  /\ LET rs == getRoomState(rooms, room)
         news == Since(rs[room].chatLog, sinceId)
     IN IF Len(news) > 0
          THEN /\ rooms' = rs
               /\ res' = [res EXCEPT ![q] = Append(@, news)]
               /\ reqState' = [reqState EXCEPT ![q] = "closed"]
               /\ ev' = EvReq("poll", q, room, sinceId, "answered")
               /\ UNCHANGED <<timers, closeListeners>>
          ELSE /\ rooms' = [rs EXCEPT ![room].pollWaiters =
                                        @ \cup {[q |-> q, sinceId |-> sinceId]}]
               /\ timers' = Put(timers, q, room)
               /\ closeListeners' = Put(closeListeners, q, room)
               /\ reqState' = [reqState EXCEPT ![q] = "open"]
               /\ ev' = EvReq("poll", q, room, sinceId, "parked")
               /\ UNCHANGED res
  /\ out' = <<>>
  /\ UNCHANGED <<now, conn, roomSlug, ioRooms, socketClientIds,
                 lastLeaveByClientIdRoom, lastActionTimeByKey, lastTopicTimeByKey,
                 banlist, moderation, topics>>

\* GET /api/log and GET /api/poll for a room that is not allowed: 404
notFound(op, q, room) ==
  /\ reqState[q] = "unsent"
  /\ ~isRoomAllowed(room)
  /\ reqState' = [reqState EXCEPT ![q] = "closed"]
  /\ out' = <<>>
  /\ ev' = EvReq(op, q, room, 0, "not-found")
  /\ UNCHANGED <<now, conn, roomSlug, ioRooms, rooms, socketClientIds,
                 lastLeaveByClientIdRoom, lastActionTimeByKey, lastTopicTimeByKey,
                 banlist, moderation, topics, timers, closeListeners, res>>

\* a delete that leaves the parked set as it is
deleteWaiter_Noop(rs, room, q) == rs

\* st.pollWaiters.delete(waiter)
deleteWaiter(rs, room, q) ==
  [rs EXCEPT ![room].pollWaiters = {w \in @ : w.q # q}]

\* the deadline timer of a parked request fires (POLL_TIMEOUT_MS after it parked)
pollTimeout(q) ==
  /\ Has(timers, q)
  /\ timers' = Del(timers, q)
  /\ rooms' = deleteWaiter(rooms, timers[q], q)
  /\ res' = [res EXCEPT ![q] = Append(@, <<>>)]
  /\ out' = <<>>
  /\ ev' = EvReq("poll-timeout", q, timers[q], 0, "empty")
  /\ UNCHANGED <<now, conn, roomSlug, ioRooms, socketClientIds,
                 lastLeaveByClientIdRoom, lastActionTimeByKey, lastTopicTimeByKey,
                 banlist, moderation, topics, closeListeners, reqState>>

\* a close listener that forgets clearTimeout
clearTimer_Noop(q) == timers

\* the timers left after the close listener's clearTimeout(waiter.timer)
clearTimer(q) == Del(timers, q)

\* req.on("close"): the caller's connection closed
pollClose(q) ==
  /\ reqState[q] = "open"
  /\ Has(closeListeners, q)
  /\ timers' = clearTimer(q)
  /\ rooms' = deleteWaiter(rooms, closeListeners[q], q)
  /\ closeListeners' = Del(closeListeners, q)
  /\ reqState' = [reqState EXCEPT ![q] = "closed"]
  /\ out' = <<>>
  /\ ev' = EvReq("poll-close", q, closeListeners[q], 0, "ok")
  /\ UNCHANGED <<now, conn, roomSlug, ioRooms, socketClientIds,
                 lastLeaveByClientIdRoom, lastActionTimeByKey, lastTopicTimeByKey,
                 banlist, moderation, topics, res>>

(***************************************************************************)
(* The server on its own: connections, members and anonymous HTTP callers. *)
(***************************************************************************)
SrvInit ==
  /\ now = StartTime
  /\ conn = [s \in Sockets |-> "new"]
  /\ roomSlug = [s \in Sockets |-> NoRoom]
  /\ ioRooms = [s \in Sockets |-> {}]
  /\ rooms = EmptyMap
  /\ socketClientIds = EmptyMap
  /\ lastLeaveByClientIdRoom = EmptyMap
  /\ lastActionTimeByKey = EmptyMap
  /\ lastTopicTimeByKey = EmptyMap
  /\ banlist = {}
  /\ moderation = DefaultModeration
  /\ topics = [r \in Rooms |-> r = "main"]
  /\ timers = EmptyMap
  /\ closeListeners = EmptyMap
  /\ reqState = [q \in AllReqs |-> "unsent"]
  /\ res = [q \in AllReqs |-> <<>>]
  /\ out = <<>>
  /\ ev = NoEv

(***************************************************************************)
(* The browser page (public/client.js).                                    *)
(***************************************************************************)
Me == "s1"
MyRoom == "main"

\* the part of the page's state that rendering touches
Client == [seenIds |-> seenIds, lastSeenId |-> lastSeenId, view |-> view, shown |-> shown]

CommitClient(C) ==
  /\ seenIds' = C.seenIds
  /\ lastSeenId' = C.lastSeenId
  /\ view' = C.view
  /\ shown' = C.shown

\* arr.sort((a, b) => a - b).slice(-n), as a set
Largest(S, n) == {x \in S : Cardinality({y \in S : y > x}) < n}

\* rememberSeen(id)
rememberSeen(C, id) ==
  IF id = 0 THEN C
  ELSE LET seen == C.seenIds \cup {id}
       IN [C EXCEPT !.seenIds = IF Cardinality(seen) > SEEN_IDS_MAX
                                  THEN Largest(seen, SEEN_IDS_KEEP) ELSE seen,
                    !.lastSeenId = IF id > @ THEN id ELSE @]

\* trimChatDom()
trimChatDom(v) ==
  IF Len(v) > CHAT_DOM_MAX THEN SubSeq(v, Len(v) - CHAT_DOM_MAX + 1, Len(v)) ELSE v

\* renderLogItem without the seenIds test
renderLogItem_NoDedup(C, id) ==
  LET C1 == rememberSeen(C, id)
  IN [C1 EXCEPT !.view = trimChatDom(Append(@, id)),
                !.shown = IF id # 0 THEN @ \cup {id} ELSE @]

\* renderLogItem(item, fromSocket): skip an id already seen, else remember it
\* and append the message at the end of the chat DOM
renderLogItem(C, id) ==
  IF id # 0 /\ id \in C.seenIds THEN C
  ELSE LET C1 == rememberSeen(C, id)
       IN [C1 EXCEPT !.view = trimChatDom(Append(@, id)),
                     !.shown = IF id # 0 THEN @ \cup {id} ELSE @]

\* for (const m of messages) renderLogItem(m, false)
RECURSIVE renderAll(_, _)
renderAll(C, msgs) ==
  IF msgs = <<>> THEN C
  ELSE renderAll(renderLogItem(C, Head(msgs).id), Tail(msgs))

\* for (const m of messages) if (m.id) rememberSeen(m.id)
RECURSIVE rememberAll(_, _)
rememberAll(C, msgs) ==
  IF msgs = <<>> THEN C
  ELSE rememberAll(rememberSeen(C, Head(msgs).id), Tail(msgs))

\* syncFullLog() once the snapshot has arrived
onSyncResponse(C, isJoined, msgs) ==
  IF ~isJoined THEN rememberAll(C, msgs)
  ELSE renderAll([C EXCEPT !.view = <<>>, !.seenIds = {}], msgs)

\* socket.on("chat-message") and socket.on("system-message")
onPush(C, isJoined, e) ==
  IF e.event = "chat-message" THEN renderLogItem(C, e.id)
  ELSE IF ~isJoined THEN C
  ELSE IF e.id # 0 THEN renderLogItem(C, e.id)
  ELSE [C EXCEPT !.view = trimChatDom(Append(@, 0))]

\* the socket events the page registers a message handler for
HandledEvents == {"chat-message", "system-message"}

\* the events of one server handler addressed to the page, on their way to it;
\* what exceeds the channel bound is lost
Enqueue(q, o) ==
  LET mine == SelectSeq(o, LAMBDA e : Me \in e.to /\ e.event \in HandledEvents)
      all == q \o [i \in DOMAIN mine |-> [event |-> mine[i].event, id |-> mine[i].id]]
  IN IF Len(all) > PushCap THEN SubSeq(all, 1, PushCap) ELSE all

Pushed == pushq' = Enqueue(pushq, out')

PageEv(what) == Ev("page", Me, MyRoom, what)

\* a step of the page leaves the server alone, except for what is listed
ServerUntouched ==
  UNCHANGED <<now, conn, roomSlug, ioRooms, rooms, socketClientIds,
              lastLeaveByClientIdRoom, lastActionTimeByKey, lastTopicTimeByKey,
              banlist, moderation, topics, timers, departure, sinceClear, asked,
              ngRegexes, compiledNgRegexes, disk, job, alive>>

\* socket.on("connect"): syncFullLog() is started (the page has not joined yet)
OnConnect ==
  /\ conn[Me] = "open"
  /\ ~cConnected
  /\ syncpc = "none"
  /\ cConnected' = TRUE
  /\ syncpc' = "sent"
  /\ out' = <<>>
  /\ ev' = PageEv("connect")
  /\ ServerUntouched
  /\ UNCHANGED <<closeListeners, reqState, res>>
  /\ UNCHANGED <<joined, lastSeenId, seenIds, view, cEmit, pollpc, pollSince, pushq,
                 received, shown, joinedAtId>>

\* joinBtn click: emit join, joined = true, then syncFullLog()
JoinClick ==
  /\ cConnected
  /\ ~joined
  /\ syncpc = "none"
  /\ cEmit = "none"
  /\ cEmit' = "join"
  /\ joined' = TRUE
  /\ syncpc' = "sent"
  /\ out' = <<>>
  /\ ev' = PageEv("join-click")
  /\ ServerUntouched
  /\ UNCHANGED <<closeListeners, reqState, res>>
  /\ UNCHANGED <<lastSeenId, seenIds, view, cConnected, pollpc, pollSince, pushq,
                 received, shown, joinedAtId>>

\* forceResync() (visibilitychange, pageshow, online): syncFullLog() when joined
ForceResync ==
  /\ joined
  /\ syncpc = "none"
  /\ syncpc' = "sent"
  /\ out' = <<>>
  /\ ev' = PageEv("resync")
  /\ ServerUntouched
  /\ UNCHANGED <<closeListeners, reqState, res>>
  /\ UNCHANGED <<joined, lastSeenId, seenIds, view, cConnected, cEmit, pollpc,
                 pollSince, pushq, received, shown, joinedAtId>>

\* startPollLoop(), one iteration: the request leaves with since=lastSeenId
PollSend ==
  /\ joined
  /\ pollpc = "idle"
  /\ pollpc' = "sent"
  /\ pollSince' = lastSeenId
  /\ out' = <<>>
  /\ ev' = PageEv("poll-send")
  /\ ServerUntouched
  /\ UNCHANGED <<closeListeners, reqState, res>>
  /\ UNCHANGED <<joined, lastSeenId, seenIds, view, cConnected, cEmit, syncpc, pushq,
                 received, shown, joinedAtId>>

\* startPollLoop(), the response has arrived: render its messages; the request
\* is over (its close listener finds the timer cleared and the waiter deleted)
PollRecv ==
  /\ pollpc = "wait"
  /\ Len(res[ClientReq]) = 1
  /\ CommitClient(renderAll(Client, res[ClientReq][1]))
  /\ received' = received \cup IdsOf(res[ClientReq][1])
  /\ pollpc' = "idle"
  /\ pollSince' = 0
  /\ res' = [res EXCEPT ![ClientReq] = <<>>]
  /\ reqState' = [reqState EXCEPT ![ClientReq] = "unsent"]
  /\ closeListeners' = Del(closeListeners, ClientReq)
  /\ out' = <<>>
  /\ ev' = PageEv("poll-response")
  /\ ServerUntouched
  /\ UNCHANGED <<joined, cConnected, cEmit, syncpc, pushq, joinedAtId>>

\* syncFullLog(), the snapshot has arrived
SyncRecv ==
  /\ syncpc = "wait"
  /\ Len(res[SyncReq]) = 1
  /\ CommitClient(onSyncResponse(Client, joined, res[SyncReq][1]))
  /\ received' = received \cup IdsOf(res[SyncReq][1])
  /\ syncpc' = "none"
  /\ res' = [res EXCEPT ![SyncReq] = <<>>]
  /\ reqState' = [reqState EXCEPT ![SyncReq] = "unsent"]
  /\ out' = <<>>
  /\ ev' = PageEv("sync-response")
  /\ ServerUntouched
  /\ UNCHANGED closeListeners
  /\ UNCHANGED <<joined, cConnected, cEmit, pollpc, pollSince, pushq, joinedAtId>>

\* a socket event reaches the page
PushRecv ==
  /\ pushq # <<>>
  /\ CommitClient(onPush(Client, joined, Head(pushq)))
  /\ received' = received \cup ({Head(pushq).id} \ {0})
  /\ pushq' = Tail(pushq)
  /\ out' = <<>>
  /\ ev' = [PageEv("push") EXCEPT !.arg = Head(pushq).id]
  /\ ServerUntouched
  /\ UNCHANGED <<closeListeners, reqState, res>>
  /\ UNCHANGED <<joined, cConnected, cEmit, pollpc, pollSince, syncpc, joinedAtId>>

\* a socket event is lost on its way to the page
PushLose ==
  /\ pushq # <<>>
  /\ pushq' = Tail(pushq)
  /\ out' = <<>>
  /\ ev' = PageEv("push-lost")
  /\ ServerUntouched
  /\ UNCHANGED <<closeListeners, reqState, res>>
  /\ UNCHANGED <<joined, lastSeenId, seenIds, view, cConnected, cEmit, pollpc,
                 pollSince, syncpc, received, shown, joinedAtId>>

CliInit ==
  /\ joined = FALSE
  /\ lastSeenId = 0
  /\ seenIds = {}
  /\ view = <<>>
  /\ cConnected = FALSE
  /\ cEmit = "none"
  /\ pollpc = "idle"
  /\ pollSince = 0
  /\ syncpc = "none"
  /\ pushq = <<>>
  /\ received = {}
  /\ shown = {}
  /\ joinedAtId = 0

HistInit ==
  /\ departure = EmptyMap
  /\ sinceClear = [r \in Rooms |-> <<>>]
  /\ asked = <<>>

(***************************************************************************)
(* Spec: the message log and its push channel.  Two connections join and  *)
(* leave the room "main"; "s1" renames itself, rolls a die and draws a     *)
(* topic, "s2" recolours itself, rolls dice, chats and is banned by the    *)
(* admin; the clock advances and the inactivity sweep runs.                *)
(***************************************************************************)
LogSockets == {"s1", "s2"}

\* the matchers of a pattern list: new RegExp(s, "i") for each pattern in
\* turn, a pattern that does not compile skipped
Compiled(patterns) ==
  LET good == SelectSeq(patterns, LAMBDA pat : pat.valid)
  IN [i \in DOMAIN good |-> good[i].src]

\* let moderation = readJsonSafe(...) with no stored policy, then
\* compileModerationRegexes()
PatternInit ==
  /\ ngRegexes = <<>>
  /\ compiledNgRegexes = Compiled(ngRegexes)

\* the persisted files: banlist.json and moderation.json (server.js),
\* topics.json (topics.js)
Paths == {"banlist.json", "moderation.json", "topics.json"}

\* const tmp = filePath + ".tmp"
tmpPath_InPlace(filePath) == filePath
tmpPath(filePath) == filePath \o ".tmp"

\* content of a path no file is stored under
Absent == <<"ENOENT">>
\* no writeJsonSafe call is in progress
NoJob == [path |-> "", text |-> <<>>]

\* no file is stored before the first write, the process runs
DiskInit ==
  /\ disk = [f \in Paths \cup {tmpPath(p) : p \in Paths} |-> Absent]
  /\ job = NoJob
  /\ alive = TRUE

Init == SrvInit /\ CliInit /\ HistInit /\ PatternInit /\ DiskInit /\ owed = EmptyMap

DoConnect == (\E s \in LogSockets : Connect(s)) /\ UNCHANGED <<cliVars, histVars, adminVars>>
DoJoin == (\E s \in LogSockets : Join(s, "main", "ann", "red", ClientIdOf[s])) /\ UNCHANGED <<cliVars, histVars, adminVars>>
DoLeave == (\E s \in LogSockets : Leave(s)) /\ UNCHANGED <<cliVars, histVars, adminVars>>
DoDisconnect == (\E s \in LogSockets : Disconnect(s)) /\ UNCHANGED <<cliVars, histVars, adminVars>>
DoChangeName == ChangeName("s1", "bob") /\ UNCHANGED <<cliVars, histVars, adminVars>>
DoChangeColor == ChangeColor("s2", "blue") /\ UNCHANGED <<cliVars, histVars, adminVars>>
DoSendMessage == SendMessage("s2", TxtOk) /\ UNCHANGED <<cliVars, histVars, adminVars>>
DoRoll1d6 == Roll1d6("s1") /\ UNCHANGED <<cliVars, histVars, adminVars>>
DoRollDice == RollDice("s2") /\ UNCHANGED <<cliVars, histVars, adminVars>>
DoDrawTopic == DrawTopic("s1") /\ UNCHANGED <<cliVars, histVars, adminVars>>
DoBanOnline == BanOnline("main", "s2", "clientId", 0) /\ UNCHANGED <<cliVars, histVars, adminVars>>
DoTick == (\E d \in TickSteps : Tick(d)) /\ UNCHANGED <<cliVars, histVars, adminVars>>
DoSweep == Sweep /\ UNCHANGED <<cliVars, histVars, adminVars>>

Next ==
  \/ DoConnect \/ DoJoin \/ DoLeave \/ DoDisconnect
  \/ DoChangeName \/ DoChangeColor \/ DoSendMessage \/ DoRoll1d6 \/ DoRollDice
  \/ DoDrawTopic \/ DoSweep \/ DoBanOnline \/ DoTick

vars == <<srvVars, cliVars, histVars, adminVars>>

Spec == Init /\ [][Next]_vars

(***************************************************************************)
(* Reading the log and the emissions of one step.                          *)
(***************************************************************************)
\* the state of a room, whether or not it has been created yet
RoomOf(rs, r) == getRoomState(rs, r)[r]

\* the events of one handler that carry a log entry of room r, in emission order
LogEvents(o, r) == SelectSeq(o, LAMBDA e : e.id > 0 /\ e.room = r)

StrictlyAscending(log) ==
  \A i, j \in DOMAIN log : i < j => log[i].id < log[j].id

\* C1: in every step and every room the next-id counter never decreases; the
\* entries appended by the step carry, in append order, exactly the ids from the
\* old counter up to the new counter minus one; every entry of the log that was
\* not retained before has an id no smaller than the old counter (no id is
\* assigned twice, also after truncation and after the log was cleared); and the
\* retained ids are strictly ascending.
C1_IdsMonotonic ==
  [][\A r \in Rooms :
       LET old == RoomOf(rooms, r)
           new == RoomOf(rooms', r)
           appended == LogEvents(out', r)
       IN /\ new.nextMessageId >= old.nextMessageId
          /\ Len(appended) = new.nextMessageId - old.nextMessageId
          /\ \A i \in DOMAIN appended : appended[i].id = old.nextMessageId + i - 1
          /\ \A i \in DOMAIN new.chatLog :
               (\A j \in DOMAIN old.chatLog : old.chatLog[j] # new.chatLog[i])
                 => new.chatLog[i].id >= old.nextMessageId
          /\ StrictlyAscending(new.chatLog)]_vars

\* C1 witness: a room whose log was cleared when it became empty holds an entry
\* appended afterwards, with a later id than the ones assigned before
C1_Witness ==
  \E r \in DOMAIN rooms :
     /\ rooms[r].chatLog # <<>>
     /\ Len(rooms[r].chatLog) < LOG_WINDOW
     /\ rooms[r].chatLog[1].id > 1
     /\ rooms[r].chatLog[Len(rooms[r].chatLog)].id = rooms[r].nextMessageId - 1

\* the members of room r whose connection is open
LiveMembers(rs, cn, r) == {s \in DOMAIN RoomOf(rs, r).users : cn[s] = "open"}

\* what C2 says of one step when "visible to any catch-up query" is required
\* whenever `must` holds of the room after the step
EmittedAndVisible(must(_)) ==
  \A r \in Rooms :
    LET new == RoomOf(rooms', r)
        evs == LogEvents(out', r)
    IN \A i \in DOMAIN evs :
         /\ LiveMembers(rooms', conn', r) \subseteq evs[i].to
         /\ evs[i].id = RoomOf(rooms, r).nextMessageId + i - 1
         /\ must(new) =>
              /\ \E k \in DOMAIN new.chatLog :
                   /\ new.chatLog[k].id = evs[i].id
                   /\ EventOf(new.chatLog[k].type) = evs[i].event
              /\ \A since \in 0..(evs[i].id - 1) :
                   evs[i].id \in IdsOf(Since(new.chatLog, since))

HasMembers(st) == DOMAIN st.users # {}
Always(st) == TRUE

\* C2 (amended): every entry a handler appends with id n is emitted with that
\* id n to all members of the room, and, when the room still has a member at
\* the end of the handler, it is retained and returned to every catch-up
\* query with a cursor below n; a room left without members has an empty log.
C2_EmittedAndRetained ==
  [][/\ EmittedAndVisible(HasMembers)
     /\ \A r \in DOMAIN rooms' :
          DOMAIN rooms'[r].users = {} => rooms'[r].chatLog = <<>>]_vars

\* C2 as stated: the appended entry is visible to any catch-up query with a
\* cursor below n, whatever the handler did after appending it
C2_AsStated == [][EmittedAndVisible(Always)]_vars

\* C2 witness: the last handler appended an entry beyond the first window, sent
\* it to two members, and the log retains it
C2_Witness ==
  \E i \in DOMAIN out :
     /\ out[i].id > LOG_WINDOW
     /\ Cardinality(out[i].to) = 2
     /\ out[i].to = LiveMembers(rooms, conn, out[i].room)
     /\ out[i].id \in IdsOf(rooms[out[i].room].chatLog)

(***************************************************************************)
(* CapSpec: one connection more than a room admits, joining and leaving    *)
(* the two rooms.                                                          *)
(***************************************************************************)
SocketOrder == <<"s1", "s2", "s3", "s4">>
CapSockets == {SocketOrder[i] : i \in 1..(IF MAX_USERS + 1 < 4 THEN MAX_USERS + 1 ELSE 4)}

CapConnect == (\E s \in CapSockets : Connect(s)) /\ UNCHANGED <<cliVars, histVars, adminVars>>
CapJoin == (\E s \in CapSockets : Join(s, "main", "ann", "red", ClientIdOf[s])) /\ UNCHANGED <<cliVars, histVars, adminVars>>
CapLeave == (\E s \in CapSockets : Leave(s)) /\ UNCHANGED <<cliVars, histVars, adminVars>>
CapDisconnect == (\E s \in CapSockets : Disconnect(s)) /\ UNCHANGED <<cliVars, histVars, adminVars>>

CapNext == CapConnect \/ CapJoin \/ CapLeave \/ CapDisconnect

CapSpec == Init /\ [][CapNext]_vars

MemberCount(rs, r) == Cardinality(DOMAIN RoomOf(rs, r).users)

\* C10: no room ever has more than MAX_USERS members; a join by a connection
\* that is not a member of a room holding MAX_USERS members is answered with
\* room-full (to the joining connection only) and changes nothing of the
\* server's state: memberships, logs, counters, bans, client ids, departure
\* marks and activity times all stay as they were.
C10_Capacity ==
  [][/\ \A r \in Rooms : MemberCount(rooms', r) <= MAX_USERS
     /\ (/\ ev'.op = "join"
         /\ ev'.room \in Rooms
         /\ ~Has(RoomOf(rooms, ev'.room).users, ev'.s)
         /\ MemberCount(rooms, ev'.room) >= MAX_USERS)
        => /\ ev'.result = "room-full"
           /\ out' = <<[event |-> "room-full", id |-> 0, to |-> {ev'.s},
                        room |-> NoRoom, fromId |-> NoSocket, what |-> "room-full",
                        waitMs |-> 0]>>
           /\ UNCHANGED <<now, conn, roomSlug, ioRooms, rooms, socketClientIds,
                          lastLeaveByClientIdRoom, lastActionTimeByKey,
                          lastTopicTimeByKey, banlist, moderation, topics, timers,
                          closeListeners, reqState, res>>]_vars

\* C10 witness: a join has just been refused with room-full by a room that
\* holds exactly MAX_USERS members, the refused connection not among them
C10_Witness ==
  /\ ev.op = "join"
  /\ ev.result = "room-full"
  /\ MemberCount(rooms, ev.room) = MAX_USERS
  /\ ~Has(rooms[ev.room].users, ev.s)
  /\ conn[ev.s] = "open"

(***************************************************************************)
(* PollSpec: a member appending to room "main" while two HTTP callers      *)
(* long-poll either room with any cursor.                                  *)
(***************************************************************************)
PollSockets == {"s1"}

PollConnect == (\E s \in PollSockets : Connect(s)) /\ UNCHANGED <<cliVars, histVars, adminVars>>
PollJoin == (\E s \in PollSockets : Join(s, "main", "ann", "red", ClientIdOf[s])) /\ UNCHANGED <<cliVars, histVars, adminVars>>
PollChangeColor == (\E s \in PollSockets : ChangeColor(s, "blue")) /\ UNCHANGED <<cliVars, histVars, adminVars>>
PollLeave == (\E s \in PollSockets : Leave(s)) /\ UNCHANGED <<cliVars, histVars, adminVars>>
DoPoll == (\E q \in Reqs, r \in Rooms, since \in 0..MaxId : poll(q, r, since)) /\ UNCHANGED <<cliVars, histVars, adminVars>>
DoPollTimeout == (\E q \in Reqs : pollTimeout(q)) /\ UNCHANGED <<cliVars, histVars, adminVars>>
DoPollClose == (\E q \in Reqs : pollClose(q)) /\ UNCHANGED <<cliVars, histVars, adminVars>>

PollNext ==
  \/ PollConnect \/ PollJoin \/ PollChangeColor \/ PollLeave
  \/ DoPoll \/ DoPollTimeout \/ DoPollClose

PollSpec == Init /\ [][PollNext]_vars

\* the entries of a log whose id is above a cursor, as a set of positions
NewerAt(log, cursor) == {i \in DOMAIN log : log[i].id > cursor}

\* p lists exactly the entries of log above the cursor, in ascending id order
IsNewsOf(p, log, cursor) ==
  /\ Len(p) = Cardinality(NewerAt(log, cursor))
  /\ {p[i] : i \in DOMAIN p} = {log[i] : i \in NewerAt(log, cursor)}
  /\ StrictlyAscending(p)

\* request q is parked in room r
ParkedIn(rs, r, q) == \E w \in RoomOf(rs, r).pollWaiters : w.q = q
Parked(rs, q) == \E r \in Rooms : ParkedIn(rs, r, q)

\* C6: a poll that finds retained entries above its cursor is answered in the
\* same step, once, with exactly the retained entries whose id is above the
\* cursor in ascending id order, and is not parked; when the cursor is below
\* the oldest retained id the answer is the whole retained window.
C6_PollAnswersNews ==
  [][(ev'.op = "poll" /\ NewerAt(RoomOf(rooms, ev'.room).chatLog, ev'.arg) # {})
       => LET log == RoomOf(rooms, ev'.room).chatLog
          IN /\ ev'.result = "answered"
             /\ Len(res'[ev'.q]) = 1
             /\ IsNewsOf(res'[ev'.q][1], log, ev'.arg)
             /\ (ev'.arg < log[1].id => res'[ev'.q][1] = log)
             /\ ~Parked(rooms', ev'.q)
             /\ ~Has(timers', ev'.q)
             /\ RoomOf(rooms', ev'.room).chatLog = log]_vars

\* C6 witness: a poll with a cursor inside a window that has already dropped
\* its oldest entry was answered with the entries after the cursor, fewer
\* than the window holds
C6_Witness ==
  /\ ev.op = "poll"
  /\ ev.result = "answered"
  /\ Len(rooms[ev.room].chatLog) = LOG_WINDOW
  /\ rooms[ev.room].chatLog[1].id > 1
  /\ ev.arg >= rooms[ev.room].chatLog[1].id
  /\ Len(res[ev.q][1]) = rooms[ev.room].nextMessageId - 1 - ev.arg
  /\ Len(res[ev.q][1]) < LOG_WINDOW

\* the window of a room right after entry e was pushed onto log
WindowAfter(log, e) ==
  IF Len(log) + 1 > LOG_WINDOW THEN Tail(Append(log, e)) ELSE Append(log, e)

\* C7: a poll without news is parked with a deadline timer and writes nothing;
\* a step that appends one entry to a room answers, in that step and once
\* each, every request parked in the room with a cursor below the new id,
\* with the entries retained above its cursor at that moment, and leaves the
\* other parked requests parked; a deadline that fires answers its request
\* with the empty result.
C7_ParkAndFlush ==
  [][/\ (ev'.op = "poll" /\ NewerAt(RoomOf(rooms, ev'.room).chatLog, ev'.arg) = {})
          => /\ ev'.result = "parked"
             /\ res'[ev'.q] = res[ev'.q]
             /\ [q |-> ev'.q, sinceId |-> ev'.arg] \in RoomOf(rooms', ev'.room).pollWaiters
             /\ Has(timers', ev'.q)
     /\ \A r \in Rooms :
          LET old == RoomOf(rooms, r)
              new == RoomOf(rooms', r)
              evs == LogEvents(out', r)
          IN Len(evs) = 1 =>
               \A w \in old.pollWaiters :
                  IF w.sinceId < evs[1].id
                    THEN /\ w \notin new.pollWaiters
                         /\ ~Has(timers', w.q)
                         /\ Len(res'[w.q]) = Len(res[w.q]) + 1
                         /\ \E e \in {x \in {res'[w.q][Len(res'[w.q])][i] :
                                               i \in DOMAIN res'[w.q][Len(res'[w.q])]} :
                                        x.id = evs[1].id} :
                               /\ EventOf(e.type) = evs[1].event
                               /\ IsNewsOf(res'[w.q][Len(res'[w.q])],
                                           WindowAfter(old.chatLog, e), w.sinceId)
                    ELSE /\ w \in new.pollWaiters
                         /\ res'[w.q] = res[w.q]
                         /\ Has(timers', w.q)
     /\ ev'.op = "poll-timeout"
          => /\ ParkedIn(rooms, ev'.room, ev'.q)
             /\ ~Parked(rooms', ev'.q)
             /\ res'[ev'.q] = Append(res[ev'.q], <<>>)]_vars

\* C7 witness: the last step appended an entry beyond the first and answered
\* both parked requests, each once, with that entry
C7_Witness ==
  /\ ev.op \in {"join", "change-color", "leave"}
  /\ Len(out) > 0
  /\ out[1].id > 1
  /\ \A q \in Reqs :
       /\ Has(closeListeners, q)
       /\ ~Has(timers, q)
       /\ Len(res[q]) = 1
       /\ Len(res[q][1]) = 1
       /\ res[q][1][1].id = out[1].id

\* C8: a response is written at most once; a request that is parked has not
\* been written; a request leaves the parked set in a step that is exactly one
\* of: an append that writes it a non-empty answer, its deadline writing the
\* empty answer, the caller's close writing nothing; and a parked request that
\* is written in a step has left the parked set in that step.
C8_CompletedOnce ==
  [][\A q \in Reqs :
       LET satisfied == /\ ev'.op \notin {"poll-timeout", "poll-close"}
                        /\ \E r \in Rooms : ParkedIn(rooms, r, q) /\ Len(LogEvents(out', r)) > 0
                        /\ Len(res'[q]) = 1
                        /\ res'[q][1] # <<>>
           timedOut == /\ ev'.op = "poll-timeout" /\ ev'.q = q
                       /\ res'[q] = << <<>> >>
           closed == /\ ev'.op = "poll-close" /\ ev'.q = q
                     /\ res'[q] = <<>>
       IN /\ Len(res'[q]) <= 1
          /\ Cardinality({w \in UNION {RoomOf(rooms', r).pollWaiters : r \in Rooms} :
                            w.q = q}) <= 1
          /\ Parked(rooms', q) => res'[q] = <<>>
          /\ (Parked(rooms, q) /\ ~Parked(rooms', q))
               => /\ satisfied \/ timedOut \/ closed
                  /\ ~(satisfied /\ timedOut)
                  /\ ~(satisfied /\ closed)
                  /\ ~(timedOut /\ closed)
          /\ (Parked(rooms, q) /\ res'[q] # res[q]) => ~Parked(rooms', q)]_vars

\* C8 witness: a request that was parked and answered by an append has had
\* its connection closed afterwards, its one answer still the only one
C8_Witness ==
  /\ ev.op = "poll-close"
  /\ Len(res[ev.q]) = 1
  /\ res[ev.q][1] # <<>>
  /\ \E q \in Reqs : res[q] = << <<>> >>

\* C9: in every state a deadline timer is pending only for a request that is
\* in the parked set of the timer's room; and right after the close of a
\* caller's connection its request has no timer, is in no parked set and has
\* no close listener.
C9_TimersOnlyForParked ==
  /\ \A q \in DOMAIN timers : ParkedIn(rooms, timers[q], q)
  /\ ev.op = "poll-close"
       => /\ ~Has(timers, ev.q)
          /\ ~Parked(rooms, ev.q)
          /\ ~Has(closeListeners, ev.q)

\* C9 witness: a request was closed while parked, before any answer, and
\* the other request is still parked with its timer pending
C9_Witness ==
  /\ ev.op = "poll-close"
  /\ res[ev.q] = <<>>
  /\ \E q \in Reqs : Has(timers, q) /\ Parked(rooms, q)

(***************************************************************************)
(* ClientSpec: the page on socket "s1" joins room "main" and follows it    *)
(* over push, poll and snapshot while the member on "s2" appends.          *)
(***************************************************************************)
Other == "s2"

PageQuiet ==
  UNCHANGED <<joined, lastSeenId, seenIds, view, cConnected, cEmit, pollpc, pollSince,
              syncpc, received, shown, joinedAtId>>

CliConnect == Connect(Me) /\ Pushed /\ PageQuiet /\ UNCHANGED <<histVars, adminVars>>
OtherConnect == Connect(Other) /\ Pushed /\ PageQuiet /\ UNCHANGED <<histVars, adminVars>>
OtherJoin == Join(Other, MyRoom, "bob", "red", ClientIdOf[Other]) /\ Pushed /\ PageQuiet /\ UNCHANGED <<histVars, adminVars>>
OtherChangeColor == ChangeColor(Other, "blue") /\ Pushed /\ PageQuiet /\ UNCHANGED <<histVars, adminVars>>

\* the server handles the join the page emitted
SrvJoin ==
  /\ cEmit = "join"
  /\ Join(Me, MyRoom, "ann", "red", ClientIdOf[Me])
  /\ Pushed
  /\ cEmit' = "none"
  /\ joinedAtId' = IF ev'.result \in {"joined", "resumed"}
                     THEN RoomOf(rooms, MyRoom).nextMessageId ELSE joinedAtId
  /\ UNCHANGED <<joined, lastSeenId, seenIds, view, cConnected, pollpc, pollSince,
                 syncpc, received, shown>>
  /\ UNCHANGED <<histVars, adminVars>>

\* the server handles the page's GET /api/poll
SrvPoll ==
  /\ pollpc = "sent"
  /\ poll(ClientReq, MyRoom, pollSince)
  /\ pollpc' = "wait"
  /\ UNCHANGED <<joined, lastSeenId, seenIds, view, cConnected, cEmit, pollSince,
                 syncpc, pushq, received, shown, joinedAtId>>
  /\ UNCHANGED <<histVars, adminVars>>

SrvPollTimeout == pollTimeout(ClientReq) /\ UNCHANGED <<cliVars, histVars, adminVars>>

\* the server handles the page's GET /api/log
SrvSync ==
  /\ syncpc = "sent"
  /\ getLog(SyncReq, MyRoom)
  /\ syncpc' = "wait"
  /\ UNCHANGED <<joined, lastSeenId, seenIds, view, cConnected, cEmit, pollpc,
                 pollSince, pushq, received, shown, joinedAtId>>
  /\ UNCHANGED <<histVars, adminVars>>

\* the page's own steps, its progress since a push during a snapshot not
\* followed
PageConnect == OnConnect /\ UNCHANGED owed
PageJoinClick == JoinClick /\ UNCHANGED owed
PagePollSend == PollSend /\ UNCHANGED owed
PagePollRecv == PollRecv /\ UNCHANGED owed
PageForceResync == ForceResync /\ UNCHANGED owed
PageSyncRecv == SyncRecv /\ UNCHANGED owed
PagePushRecv == PushRecv /\ UNCHANGED owed
PagePushLose == PushLose /\ UNCHANGED owed

ClientNext ==
  \/ CliConnect \/ PageConnect \/ PageJoinClick \/ SrvJoin
  \/ PagePollSend \/ SrvPoll \/ SrvPollTimeout \/ PagePollRecv
  \/ PageForceResync \/ SrvSync \/ PageSyncRecv
  \/ PagePushRecv \/ PagePushLose
  \/ OtherConnect \/ OtherJoin \/ OtherChangeColor

ClientSpec == Init /\ [][ClientNext]_vars

\* the ids of the id-bearing messages in a view
ViewIds(v) == {v[i] : i \in DOMAIN v} \ {0}

\* the entries retained by the page's room
MyLog == RoomOf(rooms, MyRoom).chatLog

\* C3 as stated, at the moments the joined page has no request in flight (its
\* poll loop is between two requests and no snapshot is under way): every
\* retained entry appended since the server admitted the page that the next
\* poll will not ask for (its id is at or below the cursor) has been
\* displayed; no later catch-up cycle returns such an entry.
C3_AsStated ==
  (joined /\ joinedAtId > 0 /\ pollpc = "idle" /\ syncpc = "none" /\ pushq = <<>>)
    => \A i \in DOMAIN MyLog :
         (MyLog[i].id >= joinedAtId /\ MyLog[i].id <= lastSeenId) => MyLog[i].id \in shown

C5_AsStated ==
  \A i, j \in DOMAIN view : (i < j /\ view[i] # 0 /\ view[j] # 0) => view[i] < view[j]

(***************************************************************************)
(* BanSpec: three connections, two of them tabs of one device, join room   *)
(* "main" while the admin bans the device's clientId for one minute or the *)
(* third connection's address without expiry, and the clock advances in    *)
(* half minutes.                                                           *)
(***************************************************************************)
BanSockets == {"s1", "s2", "s3"}
\* the clock of BanSpec advances at most this many times
MaxBanTicks == 3
BanSteps == {30 * 1000}
\* minutes = 1 of a timed ban
BanDuration == 1 * 60 * 1000
\* the bans the admin posts: type, value, minutes (0 for no expiry)
BanTargets == {<<"clientId", "devA", 1>>, <<"ip", "ip2", 0>>}

BanConnect == (\E s \in BanSockets : Connect(s)) /\ UNCHANGED <<cliVars, histVars, adminVars>>
BanJoin ==
  (\E s \in BanSockets : Join(s, "main", "ann", "red", ClientIdOf[s]))
    /\ UNCHANGED <<cliVars, histVars, adminVars>>
DoPostBan ==
  (\E t \in BanTargets :
      PostBan(t[1], t[2], IF t[3] > 0 THEN now + t[3] * BanDuration ELSE 0))
    /\ UNCHANGED <<cliVars, histVars, adminVars>>
BanTick ==
  (\E d \in BanSteps :
      /\ now + d <= StartTime + MaxBanTicks * d
      /\ Tick(d))
    /\ UNCHANGED <<cliVars, histVars, adminVars>>

BanNext == BanConnect \/ BanJoin \/ DoPostBan \/ BanTick

BanSpec == Init /\ [][BanNext]_vars

\* a ban entry that names the identity or the address and has not expired
ActiveBanOn(clientId, ip) ==
  \E it \in banlist :
     /\ (it.expiresAt = 0 \/ it.expiresAt > now)
     /\ \/ (it.type = "clientId" /\ it.value = clientId)
        \/ (it.type = "ip" /\ it.value = ip)

RejectionResults ==
  {"room-full", "banned", "rate-limit", "topic-cooldown",
   "too-long", "personal-info", "ng-word", "too-many-urls", "blocked-domain"}

\* C16 as stated: a handler that ends in an admission rejection leaves every
\* room's state, the connection-to-clientId map, the rate-limit and
\* topic-cooldown clocks and the reconnection-grace markers as they were
C16_AsStated ==
  [][ev'.result \in RejectionResults
       => /\ \A r \in Rooms : RoomOf(rooms', r) = RoomOf(rooms, r)
          /\ socketClientIds' = socketClientIds
          /\ lastActionTimeByKey' = lastActionTimeByKey
          /\ lastTopicTimeByKey' = lastTopicTimeByKey
          /\ lastLeaveByClientIdRoom' = lastLeaveByClientIdRoom]_vars

(***************************************************************************)
(* RateSpec: two tabs of one device; "s1" joins room "main", sends         *)
(* acceptable messages and rolls a die, "s2" joins either room and rolls   *)
(* dice, while the clock advances by 400 or 700 ms.                        *)
(***************************************************************************)
RateSockets == {"s1", "s2"}
\* the clock of RateSpec advances at most this many times
MaxRateTicks == 3
RateSteps == {400, 700}

RateConnect == (\E s \in RateSockets : Connect(s)) /\ UNCHANGED <<cliVars, histVars, adminVars>>
RateJoin ==
  (\/ Join("s1", "main", "ann", "red", ClientIdOf["s1"])
   \/ \E r \in Rooms : Join("s2", r, "bob", "blue", ClientIdOf["s2"]))
    /\ UNCHANGED <<cliVars, histVars, adminVars>>
RateSendMessage == SendMessage("s1", TxtOk) /\ UNCHANGED <<cliVars, histVars, adminVars>>
RateRoll1d6 == Roll1d6("s1") /\ UNCHANGED <<cliVars, histVars, adminVars>>
RateRollDice == RollDice("s2") /\ UNCHANGED <<cliVars, histVars, adminVars>>
RateTick ==
  (\E d \in RateSteps :
      /\ now + d <= StartTime + MaxRateTicks * 500
      /\ Tick(d))
    /\ UNCHANGED <<cliVars, histVars, adminVars>>

RateNext ==
  RateConnect \/ RateJoin \/ RateSendMessage \/ RateRoll1d6 \/ RateRollDice \/ RateTick

RateSpec == Init /\ [][RateNext]_vars

RateLimitedOps == {"send-message", "roll-1d6", "roll-dice"}

\* C12: the rate-limit clock of an identity in a room is written only when one
\* of its send-message or dice actions is accepted.  Such an action by a member
\* (a message with acceptable content) arriving less than minIntervalMs after
\* the clock is refused: the caller alone is told waitMs = minIntervalMs minus
\* the elapsed time, nothing is appended and the clock stays.  Arriving
\* minIntervalMs or more after the clock, or with no clock yet, it is accepted:
\* one entry is appended and the clock becomes the arrival time.
C12_RateLimit ==
  [][/\ lastActionTimeByKey' # lastActionTimeByKey
          => (ev'.op \in RateLimitedOps /\ ev'.result = "ok")
     /\ (ev'.op \in RateLimitedOps /\ ev'.result # "ignored")
          => LET s == ev'.s
                 r == roomSlug[s]
                 k == <<r, ClientIdOf[s]>>
                 min == moderation.minIntervalMs
                 early == Has(lastActionTimeByKey, k) /\ now - lastActionTimeByKey[k] < min
             IN IF early
                  THEN /\ ev'.result = "rate-limit"
                       /\ Len(out') = 1
                       /\ out'[1].event = "rate-limit"
                       /\ out'[1].to = {s}
                       /\ out'[1].waitMs = min - (now - lastActionTimeByKey[k])
                       /\ lastActionTimeByKey' = lastActionTimeByKey
                       /\ rooms' = rooms
                  ELSE /\ ev'.result = "ok"
                       /\ lastActionTimeByKey' = Put(lastActionTimeByKey, k, now)
                       /\ RoomOf(rooms', r).nextMessageId = RoomOf(rooms, r).nextMessageId + 1]_vars

\* C12 witness: in room "main" an action was accepted when the process clock
\* started and another 1100 ms later (the log holds both), and the action that
\* has just arrived 400 ms after the second was refused with waitMs 600
C12_Witness ==
  /\ ev.result = "rate-limit"
  /\ ev.room = "main"
  /\ now = StartTime + 1100 + 400
  /\ lastActionTimeByKey[<<"main", "devA">>] = StartTime + 1100
  /\ Cardinality({i \in DOMAIN rooms["main"].chatLog :
                    rooms["main"].chatLog[i].type \in {"chat", "dice"}}) = 2
  /\ out[1].waitMs = 600

(***************************************************************************)
(* ModSpec: two members of room "main"; "s1" sends messages of every kind  *)
(* the moderation checks tell apart, an HTTP caller long-polls the room    *)
(* and the admin switches the PII check off and on.  The clock stands      *)
(* still, so that every message after an accepted one arrives inside the   *)
(* minimum interval.                                                       *)
(***************************************************************************)
ModSockets == {"s1", "s2"}

\* message texts by what the checks see: length (maxMsgLen is 300), an e-mail
\* or phone shaped token, a banned word or pattern, the number of URLs
\* (maxUrlsPerMsg is 3), a URL on a blocked domain
AllTexts ==
  {t \in [len : {100, 301}, pii : BOOLEAN, ng : BOOLEAN, urls : {0, 1, 4},
          blocked : BOOLEAN] : t.blocked => t.urls > 0}

Policies == {DefaultModeration, [DefaultModeration EXCEPT !.blockPII = FALSE]}

ModConnect == (\E s \in ModSockets : Connect(s)) /\ UNCHANGED <<cliVars, histVars, adminVars>>
ModJoin ==
  (\E s \in ModSockets : Join(s, "main", "ann", "red", ClientIdOf[s]))
    /\ UNCHANGED <<cliVars, histVars, adminVars>>
ModSendMessage == (\E t \in AllTexts : SendMessage("s1", t)) /\ UNCHANGED <<cliVars, histVars, adminVars>>
ModPutModeration == (\E p \in Policies : PutModeration(p)) /\ UNCHANGED <<cliVars, histVars, adminVars>>
ModPoll ==
  poll("q1", "main", RoomOf(rooms, "main").nextMessageId - 1)
    /\ UNCHANGED <<cliVars, histVars, adminVars>>

ModNext == ModConnect \/ ModJoin \/ ModSendMessage \/ ModPutModeration \/ ModPoll

ModSpec == Init /\ [][ModNext]_vars

\* the content checks in the order the spec lists them
CheckOrder == <<"too-long", "personal-info", "ng-word", "too-many-urls", "blocked-domain">>

ModerationReasons == {CheckOrder[i] : i \in DOMAIN CheckOrder}

\* does the text fail the named check under the policy in force
Fails(t, check) ==
  CASE check = "too-long" -> moderation.maxMsgLen > 0 /\ t.len > moderation.maxMsgLen
    [] check = "personal-info" -> moderation.blockPII /\ t.pii
    [] check = "ng-word" -> t.ng
    [] check = "too-many-urls" ->
         moderation.maxUrlsPerMsg >= 0 /\ t.urls > moderation.maxUrlsPerMsg
    [] check = "blocked-domain" -> t.urls > 0 /\ t.blocked

\* the earliest check of the order that the text fails, "none" if it passes all
FirstFailing(t) ==
  LET failing == {i \in DOMAIN CheckOrder : Fails(t, CheckOrder[i])}
  IN IF failing = {} THEN "none"
     ELSE CheckOrder[CHOOSE i \in failing : \A j \in failing : i <= j]

\* the sender's action arrives inside the minimum interval of its identity
InsideInterval(s) ==
  LET k == <<roomSlug[s], ClientIdOf[s]>>
  IN /\ Has(lastActionTimeByKey, k)
     /\ now - lastActionTimeByKey[k] < moderation.minIntervalMs

\* C13 as stated: a member's send-message that arrives inside the minimum
\* interval and also fails a content check is refused as rate-limited, with
\* waitMs, and not with a moderation reason
C13_AsStated ==
  [][(/\ ev'.op = "send-message"
      /\ ev'.result # "ignored"
      /\ InsideInterval(ev'.s)
      /\ FirstFailing(ev'.text) # "none")
       => /\ ev'.result = "rate-limit"
          /\ Len(out') = 1
          /\ out'[1].event = "rate-limit"
          /\ out'[1].waitMs > 0]_vars

C15_RejectionIsPrivate ==
  [][(ev'.op = "send-message" /\ ev'.result \in ModerationReasons)
       => /\ rooms' = rooms
          /\ res' = res
          /\ timers' = timers
          /\ lastActionTimeByKey' = lastActionTimeByKey
          /\ Len(out') = 1
          /\ out'[1].event = "system-message"
          /\ out'[1].to = {ev'.s}
          /\ out'[1].id = 0]_vars

\* C15 witness: a message of "s1" has just been refused for its content while
\* "s2" is a connected member of the room and a long-poll request is parked in
\* it; the only event went to "s1"
C15_Witness ==
  /\ ev.op = "send-message"
  /\ ev.result \in ModerationReasons
  /\ Has(rooms["main"].users, "s2")
  /\ conn["s2"] = "open"
  /\ "main" \in ioRooms["s2"]
  /\ ParkedIn(rooms, "main", "q1")
  /\ Has(timers, "q1")
  /\ out = <<[event |-> "system-message", id |-> 0, to |-> {"s1"}, room |-> NoRoom,
              fromId |-> NoSocket, what |-> ev.result, waitMs |-> 0]>>

(***************************************************************************)
(* GraceSpec: tab "s1" of a device joins either room and loses its         *)
(* connection, tab "s2" of the same device joins room "main" and leaves it *)
(* explicitly, "s3" of a second device joins "main" and loses its          *)
(* connection, while the clock advances to the end of the grace window.    *)
(* The history variable departure records how and when each identity last  *)
(* departed from a room.                                                   *)
(***************************************************************************)
GraceSockets == {"s1", "s2", "s3"}
\* the instants the clock of GraceSpec moves to: half a minute after the start
\* and the end of the grace window of a departure at the start
GraceTimes == {StartTime + 30 * 1000, StartTime + INACTIVITY_LIMIT_MS}

\* the rooms the connection is a member of
RoomsOf(s) == {r \in DOMAIN rooms : Has(rooms[r].users, s)}

Departed(s, rs, how) ==
  [k \in DOMAIN departure \cup {<<ClientIdOf[s], r>> : r \in rs} |->
     IF k \in {<<ClientIdOf[s], r>> : r \in rs} THEN [how |-> how, at |-> now]
     ELSE departure[k]]

GraceConnect == (\E s \in GraceSockets : Connect(s)) /\ UNCHANGED <<cliVars, histVars, adminVars>>
GraceJoin ==
  (\/ \E r \in Rooms : Join("s1", r, "ann", "red", ClientIdOf["s1"])
   \/ \E s \in GraceSockets \ {"s1"} : Join(s, "main", "bob", "blue", ClientIdOf[s]))
    /\ UNCHANGED <<cliVars, histVars, adminVars>>
GraceLeave ==
  \E s \in {"s2"} :
     /\ Leave(s)
     /\ departure' = IF ev'.result = "left" THEN Departed(s, {roomSlug[s]}, "leave")
                      ELSE departure
     /\ UNCHANGED <<cliVars, sinceClear, asked, adminVars>>
GraceDisconnect ==
  \E s \in {"s1", "s3"} :
     /\ Disconnect(s)
     /\ departure' = Departed(s, RoomsOf(s), "drop")
     /\ UNCHANGED <<cliVars, sinceClear, asked, adminVars>>
GraceTick ==
  (\E t \in GraceTimes :
      /\ t > now
      /\ Tick(t - now))
    /\ UNCHANGED <<cliVars, histVars, adminVars>>

GraceNext == GraceConnect \/ GraceJoin \/ GraceLeave \/ GraceDisconnect \/ GraceTick

GraceSpec == Init /\ [][GraceNext]_vars

\* the join handler has just admitted its caller
Admitted == ev'.op = "join" /\ ev'.result \in {"joined", "resumed"}

\* the number of entries the step appended to the log of room r
AppendedTo(r) == RoomOf(rooms', r).nextMessageId - RoomOf(rooms, r).nextMessageId

\* C17 as stated: when the identity's member last departed from the room by a
\* dropped connection less than the grace window ago, its join appends
\* nothing; when the identity never departed from the room, or its connection
\* dropped a full window or more ago, the join appends exactly one entry, the
\* "joined" announcement
C17_AsStated ==
  [][Admitted
       => LET k == <<ClientIdOf[ev'.s], ev'.room>>
              dropped == Has(departure, k) /\ departure[k].how = "drop"
          IN /\ (dropped /\ now - departure[k].at < INACTIVITY_LIMIT_MS)
                  => AppendedTo(ev'.room) = 0
             /\ (~Has(departure, k)
                   \/ (dropped /\ now - departure[k].at >= INACTIVITY_LIMIT_MS))
                  => /\ AppendedTo(ev'.room) = 1
                     /\ \E i \in DOMAIN out' :
                          out'[i].event = "system-message" /\ out'[i].what = "joined"]_vars

\* C18 as stated: an explicit leave writes no reconnection-grace marker, and
\* the join of an identity whose member last departed from the room by an
\* explicit leave appends the "joined" announcement
C18_AsStated ==
  [][/\ ev'.op = "leave" => lastLeaveByClientIdRoom' = lastLeaveByClientIdRoom
     /\ Admitted
          => LET k == <<ClientIdOf[ev'.s], ev'.room>>
             IN (Has(departure, k) /\ departure[k].how = "leave")
                  => /\ AppendedTo(ev'.room) = 1
                     /\ \E i \in DOMAIN out' :
                          out'[i].event = "system-message" /\ out'[i].what = "joined"]_vars

\* C19 as stated: after the disconnect handler the connection is in no room's
\* membership map, typing set or last-activity table
C19_AsStated ==
  [][ev'.op = "disconnect"
       => \A r \in Rooms :
            LET st == RoomOf(rooms', r)
            IN /\ ~Has(st.users, ev'.s)
               /\ ev'.s \notin st.typingUsers
               /\ ~Has(st.lastActivityTimes, ev'.s)]_vars

(***************************************************************************)
(* SweepSpec: "s1" joins room "main", "s2" joins either room; they type    *)
(* (which counts as activity), "s2" may lose its connection, the clock     *)
(* advances in steps of half the inactivity limit and the sweep runs.      *)
(***************************************************************************)
SweepSockets == {"s1", "s2"}
\* the instants the clock of SweepSpec moves to
SweepTimes == {StartTime + k * (INACTIVITY_LIMIT_MS \div 2) : k \in 1..3}

SweepConnect == (\E s \in SweepSockets : Connect(s)) /\ UNCHANGED <<cliVars, histVars, adminVars>>
SweepJoin ==
  (\/ Join("s1", "main", "ann", "red", ClientIdOf["s1"])
   \/ \E r \in Rooms : Join("s2", r, "bob", "blue", ClientIdOf["s2"]))
    /\ UNCHANGED <<cliVars, histVars, adminVars>>
SweepTyping == (\E s \in SweepSockets : Typing(s, TRUE)) /\ UNCHANGED <<cliVars, histVars, adminVars>>
SweepDisconnect == Disconnect("s2") /\ UNCHANGED <<cliVars, histVars, adminVars>>
SweepTick ==
  /\ \E t \in SweepTimes :
       /\ t > now
       /\ now' = t
  /\ out' = <<>>
  /\ ev' = Ev("tick", NoSocket, NoRoom, "ok")
  /\ UNCHANGED <<conn, roomSlug, ioRooms, rooms, socketClientIds,
                 lastLeaveByClientIdRoom, lastActionTimeByKey, lastTopicTimeByKey,
                 banlist, moderation, topics, timers, closeListeners, reqState, res>>
  /\ UNCHANGED <<cliVars, histVars, adminVars>>
SweepRun == Sweep /\ UNCHANGED <<cliVars, histVars, adminVars>>

SweepNext ==
  SweepConnect \/ SweepJoin \/ SweepTyping \/ SweepDisconnect \/ SweepTick \/ SweepRun

SweepSpec == Init /\ [][SweepNext]_vars

\* the members of room r whose last activity is the limit or more in the past
Idle(r) ==
  {s \in DOMAIN RoomOf(rooms, r).users :
     now - RoomOf(rooms, r).lastActivityTimes[s] >= INACTIVITY_LIMIT_MS}

\* C20: every member has a last-activity time, and at a sweep, in every room:
\* each member idle for the limit or more is removed from the membership, the
\* typing set and the activity table and leaves the socket.io room, and its
\* connection, if it has one, is sent force-leave with reason "timeout"; one
\* departure system message per evicted member is appended and emitted; every
\* other member keeps its record, activity time and typing state; a room left
\* without members has an empty log and an empty typing set; and no force-leave
\* of a sweep carries another reason than "timeout".
C20_SweepEvicts ==
  [][/\ \A r \in Rooms : \A s \in DOMAIN RoomOf(rooms, r).users :
          Has(RoomOf(rooms, r).lastActivityTimes, s)
     /\ ev'.op = "sweep"
          => /\ \A r \in Rooms :
                  LET old == RoomOf(rooms, r)
                      new == RoomOf(rooms', r)
                  IN /\ \A s \in Idle(r) :
                          /\ ~Has(new.users, s)
                          /\ s \notin new.typingUsers
                          /\ ~Has(new.lastActivityTimes, s)
                          /\ r \notin ioRooms'[s]
                          /\ conn[s] = "open"
                               => \E i \in DOMAIN out' :
                                    /\ out'[i].event = "force-leave"
                                    /\ out'[i].to = {s}
                                    /\ out'[i].what = "timeout"
                     /\ \A s \in DOMAIN old.users \ Idle(r) :
                          /\ Has(new.users, s)
                          /\ new.users[s] = old.users[s]
                          /\ new.lastActivityTimes[s] = old.lastActivityTimes[s]
                          /\ (s \in new.typingUsers) = (s \in old.typingUsers)
                     /\ AppendedTo(r) = Cardinality(Idle(r))
                     /\ Len(SelectSeq(out', LAMBDA e : e.event = "system-message"
                                                      /\ e.room = r /\ e.what = "timeout"))
                          = Cardinality(Idle(r))
                     /\ (Idle(r) # {} /\ DOMAIN new.users = {})
                          => (new.chatLog = <<>> /\ new.typingUsers = {})
                     /\ (DOMAIN new.users # {} /\ Idle(r) # {})
                          => new.chatLog[Len(new.chatLog)].type = "system"
             /\ \A i \in DOMAIN out' :
                  out'[i].event = "force-leave" => out'[i].what = "timeout"]_vars

\* C20 witness: the sweep that has just run evicted "s1", which was typing and
\* is still connected, from room "main" and told it force-leave "timeout",
\* while "s2", active within the limit, is still a member with its typing
\* state, and the room's log ends with the departure message
C20_Witness ==
  /\ ev.op = "sweep"
  /\ Has(rooms, "main")
  /\ ~Has(rooms["main"].users, "s1")
  /\ conn["s1"] = "open"
  /\ \E i \in DOMAIN out :
       out[i].event = "force-leave" /\ out[i].to = {"s1"} /\ out[i].what = "timeout"
  /\ Has(rooms["main"].users, "s2")
  /\ "s2" \in rooms["main"].typingUsers
  /\ now - rooms["main"].lastActivityTimes["s2"] < INACTIVITY_LIMIT_MS
  /\ rooms["main"].chatLog # <<>>
  /\ rooms["main"].chatLog[Len(rooms["main"].chatLog)].id = out[Len(out)].id

\* the cleanup state of a world: memberships, typing sets, activity tables,
\* the connection-to-client-id map and the reconnection-grace markers
CleanupState(W) ==
  [users |-> [r \in Rooms |-> RoomOf(W.rooms, r).users],
   typingUsers |-> [r \in Rooms |-> RoomOf(W.rooms, r).typingUsers],
   lastActivityTimes |-> [r \in Rooms |-> RoomOf(W.rooms, r).lastActivityTimes],
   socketClientIds |-> W.socketClientIds,
   lastLeaveByClientIdRoom |-> W.lastLeaveByClientIdRoom]

\* C21 as stated: a sweep that evicts one member whose connection is open
\* leaves the memberships, typing sets, activity tables, client-id map and
\* grace markers that the leave handler of that member would have left when
\* run from the same state.
C21_AsStated ==
  [][(/\ ev'.op = "sweep"
      /\ \E v \in ExpiredVisits :
           /\ ExpiredVisits = {v}
           /\ Has(rooms[v[1]].users, v[2])
           /\ conn[v[2]] = "open")
       => \A v \in ExpiredVisits :
            CleanupState([World EXCEPT !.rooms = rooms',
                                       !.socketClientIds = socketClientIds',
                                       !.lastLeaveByClientIdRoom = lastLeaveByClientIdRoom'])
              = CleanupState(onLeave(World, v[2]))]_vars

(***************************************************************************)
(* IsoSpec: "s1" joins either room, also one after the other, "s2" joins   *)
(* "main" and changes colour, "s1" leaves or drops, and an HTTP caller     *)
(* polls either room.                                                      *)
(***************************************************************************)
IsoSockets == {"s1", "s2"}

IsoConnect == (\E s \in IsoSockets : Connect(s)) /\ UNCHANGED <<cliVars, histVars, adminVars>>
IsoJoin ==
  (\/ \E r \in Rooms : Join("s1", r, "ann", "red", ClientIdOf["s1"])
   \/ Join("s2", "main", "bob", "blue", ClientIdOf["s2"]))
    /\ UNCHANGED <<cliVars, histVars, adminVars>>
IsoChangeColor == ChangeColor("s2", "green") /\ UNCHANGED <<cliVars, histVars, adminVars>>
IsoLeave == Leave("s1") /\ UNCHANGED <<cliVars, histVars, adminVars>>
IsoDisconnect == Disconnect("s1") /\ UNCHANGED <<cliVars, histVars, adminVars>>
IsoPoll == (\E r \in Rooms : poll("q1", r, 0)) /\ UNCHANGED <<cliVars, histVars, adminVars>>

IsoNext ==
  IsoConnect \/ IsoJoin \/ IsoChangeColor \/ IsoLeave \/ IsoDisconnect \/ IsoPoll

IsoSpec == Init /\ [][IsoNext]_vars

\* the part of a room's state that the claim lists
Isolated(rs, r) ==
  LET st == RoomOf(rs, r)
  IN <<st.users, st.typingUsers, st.chatLog, st.nextMessageId, st.pollWaiters>>

\* a handler that ran for room A left every other room, and the responses of
\* the requests parked there, as they were
RoomFrame ==
  ev'.room \in Rooms
    => \A B \in Rooms \ {ev'.room} :
         /\ Isolated(rooms', B) = Isolated(rooms, B)
         /\ \A w \in RoomOf(rooms, B).pollWaiters : res'[w.q] = res[w.q]

\* every push event that carries a log entry goes only to connections whose
\* current room is the entry's room
PushStaysInRoom ==
  \A i \in DOMAIN out' :
     out'[i].id > 0 => \A s \in out'[i].to : roomSlug'[s] = out'[i].room

\* C22 as stated: an action performed in one room leaves the membership,
\* typing set, log, id counter and parked requests of every other room
\* unchanged, and an entry appended to one room is pushed to no connection
\* whose room is another one.
C22_AsStated == [][RoomFrame /\ PushStaysInRoom]_vars

(***************************************************************************)
(* WindowSpec: two members of room "main" append by renaming and by        *)
(* joining and leaving; the history variable sinceClear records, from the  *)
(* events each handler emits, what was appended to a room since it last    *)
(* lost its last member.                                                   *)
(***************************************************************************)
WindowSockets == {"s1", "s2"}

\* the entries a handler's events announce for room r: id and event name
Announced(o, r) ==
  LET evs == LogEvents(o, r)
  IN [i \in DOMAIN evs |-> [id |-> evs[i].id, event |-> evs[i].event]]

\* the update of sinceClear by one handler
Recorded ==
  sinceClear' =
    [r \in Rooms |->
       IF DOMAIN RoomOf(rooms, r).users # {} /\ DOMAIN RoomOf(rooms', r).users = {}
         THEN <<>>
         ELSE sinceClear[r] \o Announced(out', r)]

WindowConnect ==
  (\E s \in WindowSockets : Connect(s)) /\ Recorded /\ UNCHANGED <<cliVars, departure, asked, adminVars>>
WindowJoin ==
  (\E s \in WindowSockets : Join(s, "main", "ann", "red", ClientIdOf[s]))
    /\ Recorded /\ UNCHANGED <<cliVars, departure, asked, adminVars>>
WindowChangeName ==
  (\E n \in Names : ChangeName("s1", n)) /\ Recorded /\ UNCHANGED <<cliVars, departure, asked, adminVars>>
WindowLeave == Leave("s2") /\ Recorded /\ UNCHANGED <<cliVars, departure, asked, adminVars>>
WindowDisconnect ==
  (\E s \in WindowSockets : Disconnect(s)) /\ Recorded /\ UNCHANGED <<cliVars, departure, asked, adminVars>>

WindowNext ==
  WindowConnect \/ WindowJoin \/ WindowChangeName \/ WindowLeave \/ WindowDisconnect

WindowSpec == Init /\ [][WindowNext]_vars

\* the last n elements of a sequence (all of it when it is shorter)
LastN(q, n) == IF Len(q) <= n THEN q ELSE SubSeq(q, Len(q) - n + 1, Len(q))

\* a log as the events announced it: id and event name of each entry
AsAnnounced(log) ==
  [i \in DOMAIN log |-> [id |-> log[i].id, event |-> EventOf(log[i].type)]]

\* C23: in every state reached, and after every step, a room's retained log
\* holds at most LOG_WINDOW entries (50 in the source) and is exactly the last
\* entries appended since the room was last vacated, as many as fit the
\* window: only oldest entries are ever missing and the ids of the retained
\* ones are the ids they were announced with; every entry that stays retained
\* over a step is the same record as before; and the next id advances by the
\* number of entries the step appended, whether or not the step truncated.
C23_Window ==
  [][\A r \in Rooms :
       LET old == RoomOf(rooms, r)
           new == RoomOf(rooms', r)
       IN /\ Len(old.chatLog) <= LOG_WINDOW
          /\ Len(new.chatLog) <= LOG_WINDOW
          /\ AsAnnounced(old.chatLog) = LastN(sinceClear[r], LOG_WINDOW)
          /\ AsAnnounced(new.chatLog) = LastN(sinceClear'[r], LOG_WINDOW)
          /\ \A i \in DOMAIN new.chatLog :
               new.chatLog[i].id < old.nextMessageId
                 => \E j \in DOMAIN old.chatLog : old.chatLog[j] = new.chatLog[i]
          /\ new.nextMessageId = old.nextMessageId + Len(Announced(out', r))]_vars

\* C23 witness: room "main" has had more entries appended since it was last
\* vacated than the window holds, and the handler that has just run appended
\* one: the oldest of them is gone from the log, the newest is its last entry
C23_Witness ==
  /\ Has(rooms, "main")
  /\ Len(sinceClear["main"]) > LOG_WINDOW
  /\ Len(rooms["main"].chatLog) = LOG_WINDOW
  /\ Len(Announced(out, "main")) = 1
  /\ rooms["main"].chatLog[LOG_WINDOW].id = out[Len(out)].id
  /\ rooms["main"].chatLog[1].id = sinceClear["main"][2].id
  /\ rooms["main"].nextMessageId = sinceClear["main"][1].id + LOG_WINDOW + 1

\* the highest id of a list of entries (0 for none)
HighestId(msgs) ==
  IF msgs = <<>> THEN 0
  ELSE CHOOSE n \in IdsOf(msgs) : \A m \in IdsOf(msgs) : m <= n

\* C24 as stated: the server answers the page's GET /api/log with the whole
\* retained log of the page's room, and when the joined page has processed a
\* snapshot that holds entries, its cursor lastSeenId is the highest id of
\* that snapshot.
C24_AsStated ==
  [][/\ (ev'.op = "log" /\ ev'.q = SyncReq)
          => res'[SyncReq] = <<RoomOf(rooms', MyRoom).chatLog>>
     /\ (ev'.op = "page" /\ ev'.result = "sync-response" /\ joined
          /\ res[SyncReq][1] # <<>>)
          => lastSeenId' = HighestId(res[SyncReq][1])]_vars

(***************************************************************************)
(* OrderSpec: two members of room "main" append by joining and renaming,   *)
(* the sweep evicts both in one run, and two HTTP callers poll the room    *)
(* and fetch its log.                                                      *)
(***************************************************************************)
OrderSockets == {"s1", "s2"}

OrderConnect == (\E s \in OrderSockets : Connect(s)) /\ UNCHANGED <<cliVars, histVars, adminVars>>
OrderJoin ==
  (\E s \in OrderSockets : Join(s, "main", "ann", "red", ClientIdOf[s]))
    /\ UNCHANGED <<cliVars, histVars, adminVars>>
OrderChangeName ==
  (\E n \in Names : ChangeName("s1", n)) /\ UNCHANGED <<cliVars, histVars, adminVars>>
OrderTick ==
  /\ now = StartTime
  /\ Tick(INACTIVITY_LIMIT_MS)
  /\ UNCHANGED <<cliVars, histVars, adminVars>>
OrderSweep == Sweep /\ UNCHANGED <<cliVars, histVars, adminVars>>
OrderPoll ==
  (\E since \in 0..1 : poll("q1", "main", since)) /\ UNCHANGED <<cliVars, histVars, adminVars>>
OrderGetLog == getLog("q2", "main") /\ UNCHANGED <<cliVars, histVars, adminVars>>

OrderNext ==
  OrderConnect \/ OrderJoin \/ OrderChangeName \/ OrderTick \/ OrderSweep
    \/ OrderPoll \/ OrderGetLog

OrderSpec == Init /\ [][OrderNext]_vars

\* C25: in every step and every room the log lists its entries in ascending
\* id order; the push events of the step that carry an entry of the room are
\* emitted in ascending id order, each with an id above every id the room had
\* assigned before the step; and every poll or snapshot response sent in the
\* step lists its entries in ascending id order.
C25_OrderedDelivery ==
  [][/\ \A r \in Rooms :
          LET evs == LogEvents(out', r)
          IN /\ StrictlyAscending(RoomOf(rooms', r).chatLog)
             /\ StrictlyAscending(evs)
             /\ \A i \in DOMAIN evs : evs[i].id >= RoomOf(rooms, r).nextMessageId
     /\ \A q \in AllReqs :
          res'[q] # res[q]
            => /\ res'[q] # <<>>
               /\ StrictlyAscending(res'[q][Len(res'[q])])]_vars

\* C25 witness: the sweep has just emitted two departure messages of room
\* "main" in one run, and the poll and the snapshot answered before list two
\* and more entries
C25_Witness ==
  /\ ev.op = "sweep"
  /\ Len(LogEvents(out, "main")) = 2
  /\ res["q1"] # <<>>
  /\ Len(res["q1"][1]) >= 2
  /\ res["q2"] # <<>>
  /\ Len(res["q2"][1]) >= 2

(***************************************************************************)
(* TopicSpec: two tabs of one device, "s1" in room "main" and "s2" in room *)
(* "sub"; "s1" sends messages and rolls dice, both draw topics, and the    *)
(* clock moves to instants inside and outside the two waiting times.       *)
(***************************************************************************)
TopicSockets == {"s1", "s2"}
\* the instants the clock of TopicSpec moves to
TopicTimes == {StartTime + 600, StartTime + 1200, StartTime + TOPIC_COOLDOWN_MS}

TopicConnect == (\E s \in TopicSockets : Connect(s)) /\ UNCHANGED <<cliVars, histVars, adminVars>>
TopicJoin ==
  (\/ Join("s1", "main", "ann", "red", ClientIdOf["s1"])
   \/ Join("s2", "sub", "bob", "blue", ClientIdOf["s2"]))
    /\ UNCHANGED <<cliVars, histVars, adminVars>>
TopicSendMessage == SendMessage("s1", TxtOk) /\ UNCHANGED <<cliVars, histVars, adminVars>>
TopicRollDice == RollDice("s1") /\ UNCHANGED <<cliVars, histVars, adminVars>>
TopicDraw == (\E s \in TopicSockets : DrawTopic(s)) /\ UNCHANGED <<cliVars, histVars, adminVars>>
TopicTick ==
  /\ \E t \in TopicTimes :
       /\ t > now
       /\ now' = t
  /\ out' = <<>>
  /\ ev' = Ev("tick", NoSocket, NoRoom, "ok")
  /\ UNCHANGED <<conn, roomSlug, ioRooms, rooms, socketClientIds,
                 lastLeaveByClientIdRoom, lastActionTimeByKey, lastTopicTimeByKey,
                 banlist, moderation, topics, timers, closeListeners, reqState, res>>
  /\ UNCHANGED <<cliVars, histVars, adminVars>>

TopicNext ==
  TopicConnect \/ TopicJoin \/ TopicSendMessage \/ TopicRollDice \/ TopicDraw
    \/ TopicTick

TopicSpec == Init /\ [][TopicNext]_vars

\* C26: the topic table lastTopicTimeByKey is written by accepted topic draws
\* only and the action table lastActionTimeByKey by accepted messages and dice
\* rolls only.  A member's topic draw less than TOPIC_COOLDOWN_MS after the
\* last accepted draw of its identity in the room is refused with the remaining
\* wait and changes nothing; any other draw is accepted and restarts the
\* cooldown, whatever the action clock says.  A member's message or dice roll
\* is refused exactly when it comes less than minIntervalMs after the action
\* clock, whatever the topic cooldown says.
C26_TopicCooldown ==
  [][/\ lastTopicTimeByKey' # lastTopicTimeByKey => ev'.op = "draw-topic"
     /\ lastActionTimeByKey' # lastActionTimeByKey => ev'.op \in RateLimitedOps
     /\ (ev'.op = "draw-topic" /\ ev'.result # "ignored")
          => LET s == ev'.s
                 r == roomSlug[s]
                 k == <<r, ClientIdOf[s]>>
                 cooling == /\ Has(lastTopicTimeByKey, k)
                            /\ now - lastTopicTimeByKey[k] < TOPIC_COOLDOWN_MS
             IN IF cooling
                  THEN /\ ev'.result = "topic-cooldown"
                       /\ Len(out') = 1
                       /\ out'[1].event = "rate-limit"
                       /\ out'[1].to = {s}
                       /\ out'[1].waitMs
                            = TOPIC_COOLDOWN_MS - (now - lastTopicTimeByKey[k])
                       /\ lastTopicTimeByKey' = lastTopicTimeByKey
                       /\ rooms' = rooms
                  ELSE /\ ev'.result \in {"ok", "no-topic"}
                       /\ lastTopicTimeByKey' = Put(lastTopicTimeByKey, k, now)
                       /\ ev'.result = "ok" => AppendedTo(r) = 1
     /\ (ev'.op \in RateLimitedOps /\ ev'.result # "ignored")
          => LET k == <<roomSlug[ev'.s], ClientIdOf[ev'.s]>>
             IN (ev'.result = "rate-limit")
                  = (/\ Has(lastActionTimeByKey, k)
                     /\ now - lastActionTimeByKey[k] < moderation.minIntervalMs)]_vars

\* C26 witness: in room "main" a message or roll and a topic draw were
\* accepted at the same instant; 1200 ms later, with the action clock's
\* interval over, a topic draw has just been refused with 3800 ms to wait
C26_Witness ==
  /\ ev.op = "draw-topic"
  /\ ev.result = "topic-cooldown"
  /\ ev.room = "main"
  /\ now = StartTime + 1200
  /\ lastTopicTimeByKey[<<"main", "devA">>] = StartTime
  /\ Has(lastActionTimeByKey, <<"main", "devA">>)
  /\ lastActionTimeByKey[<<"main", "devA">>] = StartTime
  /\ out[1].waitMs = TOPIC_COOLDOWN_MS - 1200

(***************************************************************************)
(* SlugSpec: "s2" joins room "main"; "s1" joins, and HTTP callers poll and *)
(* fetch the log, with room slugs spelled in several ways: allowed ones,   *)
(* one that is not allowed, ones with characters that normalizeRoomSlug    *)
(* drops, and none.                                                        *)
(***************************************************************************)
SlugSockets == {"s1", "s2"}
\* the slugs of the requests, as sequences of characters
RawSlugs ==
  {<<"m", "a", "i", "n">>, <<"s", "u", "b">>, <<"z", "z">>,
   <<"m", "a", "!", "i", "n">>, <<"!", "?">>, <<>>}

SlugConnect ==
  (\E s \in SlugSockets : Connect(s)) /\ UNCHANGED <<cliVars, histVars, adminVars>>
SlugJoin ==
  \E s \in SlugSockets :
     \E raw \in IF s = "s1" THEN RawSlugs ELSE {<<"m", "a", "i", "n">>} :
        /\ Join(s, normalizeRoomSlug(raw), "ann", "red", ClientIdOf[s])
        /\ asked' = raw
        /\ UNCHANGED <<cliVars, departure, sinceClear, adminVars>>
SlugPoll ==
  \E raw \in RawSlugs :
     /\ \/ poll("q1", normalizeRoomSlug(raw), 0)
        \/ notFound("poll", "q1", normalizeRoomSlug(raw))
     /\ asked' = raw
     /\ UNCHANGED <<cliVars, departure, sinceClear, adminVars>>
SlugGetLog ==
  \E raw \in RawSlugs :
     /\ \/ getLog("q2", normalizeRoomSlug(raw))
        \/ notFound("log", "q2", normalizeRoomSlug(raw))
     /\ asked' = raw
     /\ UNCHANGED <<cliVars, departure, sinceClear, adminVars>>

SlugNext == SlugConnect \/ SlugJoin \/ SlugPoll \/ SlugGetLog

SlugSpec == Init /\ [][SlugNext]_vars

\* the handler that has just run took a room slug from its caller
TookSlug == ev'.op \in {"join", "poll", "log"}

\* the caller of the handler that has just run was refused for its room
Refused ==
  IF ev'.op = "join"
    THEN /\ ev'.result = "no-such-room"
         /\ conn'[ev'.s] = "closed"
         /\ Len(out') = 1
         /\ out'[1].event = "system-message"
         /\ out'[1].id = 0
         /\ out'[1].to = {ev'.s}
    ELSE /\ ev'.result = "not-found"
         /\ res' = res
         /\ timers' = timers

\* C27 as stated: the registry holds allowed slugs only, and a join, poll or
\* snapshot request whose slug, as spelled, is not an allowed one is refused
\* and leaves every RoomState as it was.
C27_AsStated ==
  [][/\ DOMAIN rooms' \subseteq Rooms
     /\ (TookSlug /\ asked' # <<>> /\ Spelled(asked') \notin Rooms)
          => (Refused /\ rooms' = rooms)]_vars

\* C27 (amended): the registry holds allowed slugs only.  A join, poll or
\* snapshot request is refused exactly when its slug, normalised (characters
\* outside [a-zA-Z0-9_-] dropped, "main" for none), is not an allowed one: the
\* join gets one notice and its connection is closed, the HTTP request gets
\* 404 and is not parked.  The refusal creates no RoomState and no entry; a
\* refused poll or snapshot changes no RoomState at all, and a refused join
\* changes only the room its connection was in, as a disconnect does: the
\* connection is no longer a member or typing there, and if it was the last
\* member the room's log is cleared.
C27_Refusal ==
  [][/\ DOMAIN rooms' \subseteq Rooms
     /\ TookSlug
          => IF normalizeRoomSlug(asked') \in Rooms
               THEN ~Refused /\ ev'.result \notin {"no-such-room", "not-found"}
               ELSE /\ Refused
                    /\ DOMAIN rooms' = DOMAIN rooms
                    /\ \A r \in DOMAIN rooms :
                         LET old == rooms[r]
                             new == rooms'[r]
                         IN IF ev'.op = "join" /\ r = roomSlug[ev'.s]
                              THEN /\ new.users = Del(old.users, ev'.s)
                                   /\ ev'.s \notin new.typingUsers
                                   /\ new.nextMessageId = old.nextMessageId
                                   /\ new.pollWaiters = old.pollWaiters
                                   /\ new.chatLog = IF DOMAIN new.users = {} THEN <<>>
                                                    ELSE old.chatLog
                              ELSE new = old]_vars

\* C27 witness: a member of room "main" has just sent a join for a slug that
\* is not allowed: it was told so, its connection is closed, it is no longer
\* a member of "main", whose other member and log are still there, and the
\* registry has no room of that name
C27_Witness ==
  /\ ev.op = "join"
  /\ ev.result = "no-such-room"
  /\ asked = <<"z", "z">>
  /\ conn[ev.s] = "closed"
  /\ roomSlug[ev.s] = "main"
  /\ DOMAIN rooms = {"main"}
  /\ ~Has(rooms["main"].users, ev.s)
  /\ DOMAIN rooms["main"].users # {}
  /\ rooms["main"].chatLog # <<>>

\* the rooms whose membership map holds connection s
MemberOf(s) == {r \in DOMAIN rooms : Has(rooms[r].users, s)}

\* C28 as stated: no connection is in the membership map of more than one
\* room.
C28_AsStated == \A s \in Sockets : Cardinality(MemberOf(s)) <= 1

(***************************************************************************)
(* PatternSpec: the admin replaces the moderation policy's pattern list    *)
(* while a member sends messages; writing the policy file can fail.        *)
(***************************************************************************)
\* pattern sources: two that compile and one that does not
Patterns ==
  {[src |-> "spam", valid |-> TRUE], [src |-> "ad+s", valid |-> TRUE],
   [src |-> "(", valid |-> FALSE]}
\* the most patterns a modelled policy lists
MaxPatterns == 2
PatternLists == UNION {[1..n -> Patterns] : n \in 0..MaxPatterns}

\* writeJsonSafe(filePath, obj): writeFileSync or renameSync may throw
WriteOutcomes == {"written", "threw"}

\* app.put("/api/moderation") with a body that changes the pattern list:
\* moderation = {...}; writeJsonSafe(...); compileModerationRegexes()
PutPatterns(patterns, write) ==
  /\ ngRegexes' = patterns
  /\ compiledNgRegexes' = IF write = "written" THEN Compiled(patterns)
                          ELSE compiledNgRegexes
  /\ out' = <<>>
  /\ ev' = Ev("put-moderation", NoSocket, NoRoom,
              IF write = "written" THEN "ok" ELSE "error")
  /\ UNCHANGED <<now, conn, roomSlug, ioRooms, rooms, socketClientIds,
                 lastLeaveByClientIdRoom, lastActionTimeByKey, lastTopicTimeByKey,
                 banlist, moderation, topics, timers, closeListeners, reqState, res>>

PatternConnect == Connect("s1") /\ UNCHANGED <<cliVars, histVars, adminVars>>
PatternJoin ==
  Join("s1", "main", "ann", "red", ClientIdOf["s1"])
    /\ UNCHANGED <<cliVars, histVars, adminVars>>
PatternSendMessage ==
  (\E t \in {TxtOk, TxtNg} : SendMessage("s1", t))
    /\ UNCHANGED <<cliVars, histVars, adminVars>>
PatternPut ==
  (\E patterns \in PatternLists, write \in WriteOutcomes : PutPatterns(patterns, write))
    /\ UNCHANGED <<cliVars, histVars, diskVars, owed>>

PatternNext == PatternConnect \/ PatternJoin \/ PatternSendMessage \/ PatternPut

PatternSpec == Init /\ [][PatternNext]_vars

\* C29 as stated: in every state, and so whenever a message is checked, the
\* compiled matchers are those of the current policy's pattern list, the
\* patterns that do not compile skipped.
C29_AsStated == compiledNgRegexes = Compiled(ngRegexes)

(***************************************************************************)
(* StoreSpec: writeJsonSafe persists the ban list, the moderation policy   *)
(* and the topic pool while the process may crash at any point and be      *)
(* started again.                                                          *)
(***************************************************************************)
\* the items a stored list holds
Entries == {"a"}
\* the most items a modelled stored list holds
MaxEntries == 1
Objects == UNION {[1..n -> Entries] : n \in 0..MaxEntries}

\* JSON.stringify(obj, null, 2) of a list: its items between brackets
Serialise(obj) == <<"[">> \o obj \o <<"]">>

\* JSON.parse(raw) as readJsonSafe calls it: the list, or a syntax error
ParseJson(raw) ==
  IF /\ Len(raw) >= 2
     /\ raw[1] = "["
     /\ raw[Len(raw)] = "]"
     /\ \A i \in 2..(Len(raw) - 1) : raw[i] \in Entries
  THEN [ok |-> TRUE, value |-> SubSeq(raw, 2, Len(raw) - 1)]
  ELSE [ok |-> FALSE, value |-> <<>>]

\* fs.renameSync(from, to): the file under from replaces the one under to;
\* renaming a file onto itself changes nothing
renameSync(d, from, to) ==
  IF from = to THEN d ELSE [d EXCEPT ![to] = d[from], ![from] = Absent]

\* writeJsonSafe(filePath, obj), first step: fs.writeFileSync opens the
\* temporary file, creating or truncating it
StoreOpen(filePath, obj) ==
  /\ alive
  /\ job = NoJob
  /\ job' = [path |-> filePath, text |-> Serialise(obj)]
  /\ disk' = [disk EXCEPT ![tmpPath(filePath)] = <<>>]
  /\ UNCHANGED alive

\* fs.writeFileSync, going on: the next character reaches the open file
StoreWrite ==
  /\ alive
  /\ job # NoJob
  /\ Len(disk[tmpPath(job.path)]) < Len(job.text)
  /\ disk' = [disk EXCEPT ![tmpPath(job.path)] =
                Append(@, job.text[Len(@) + 1])]
  /\ UNCHANGED <<job, alive>>

\* fs.renameSync(tmp, filePath) once the whole text is written; the call
\* returns
StoreRename ==
  /\ alive
  /\ job # NoJob
  /\ Len(disk[tmpPath(job.path)]) = Len(job.text)
  /\ disk' = renameSync(disk, tmpPath(job.path), job.path)
  /\ job' = NoJob
  /\ UNCHANGED alive

\* the process dies: what reached the files stays, the call in progress is
\* lost
StoreCrash ==
  /\ alive
  /\ alive' = FALSE
  /\ job' = NoJob
  /\ UNCHANGED disk

\* the process is started again
StoreRestart ==
  /\ ~alive
  /\ alive' = TRUE
  /\ UNCHANGED <<disk, job>>

StoreBegin ==
  (\E filePath \in Paths, obj \in Objects : StoreOpen(filePath, obj))
    /\ UNCHANGED <<srvVars, cliVars, histVars, patternVars, owed>>
StoreStep == StoreWrite /\ UNCHANGED <<srvVars, cliVars, histVars, patternVars, owed>>
StoreEnd == StoreRename /\ UNCHANGED <<srvVars, cliVars, histVars, patternVars, owed>>
StoreDie == StoreCrash /\ UNCHANGED <<srvVars, cliVars, histVars, patternVars, owed>>
StoreStart == StoreRestart /\ UNCHANGED <<srvVars, cliVars, histVars, patternVars, owed>>

StoreNext == StoreBegin \/ StoreStep \/ StoreEnd \/ StoreDie \/ StoreStart

StoreSpec == Init /\ [][StoreNext]_vars

\* C30: no step, a crash included, leaves a stored file with anything but
\* its previous content or the complete text of the write in progress; a
\* stored file always parses.
C30_CrashSafe ==
  [][\A p \in Paths :
       /\ disk'[p] = disk[p] \/ (job.path = p /\ disk'[p] = job.text)
       /\ disk'[p] # Absent => ParseJson(disk'[p]).ok]_vars

\* the process has died in the middle of a write over a stored file: the
\* temporary file holds part of a text, the target a complete one
C30_Witness ==
  \E p \in Paths :
    /\ ~alive
    /\ disk[p] # Absent
    /\ ParseJson(disk[p]).ok
    /\ disk[tmpPath(p)] # Absent
    /\ disk[tmpPath(p)] # <<>>
    /\ ~ParseJson(disk[tmpPath(p)]).ok

(***************************************************************************)
(* IdentitySpec: two connections of one device ("s1" and "s2" send the     *)
(* same clientId); "s1" joins either room, "s2" joins room "main"; once    *)
(* the clock has moved both send acceptable messages; "s1" draws topics    *)
(* and may lose its connection, and the sweep runs.                        *)
(***************************************************************************)
\* the instants the clock of IdentitySpec moves to
IdentityTimes == {StartTime + 400, StartTime + INACTIVITY_LIMIT_MS}

IdentityConnect ==
  (\E s \in {"s1", "s2"} : Connect(s)) /\ UNCHANGED <<cliVars, histVars, adminVars>>
IdentityJoin ==
  (\/ \E r \in Rooms : Join("s1", r, "ann", "red", ClientIdOf["s1"])
   \/ Join("s2", "main", "bob", "blue", ClientIdOf["s2"]))
    /\ UNCHANGED <<cliVars, histVars, adminVars>>
IdentitySendMessage ==
  (\E s \in {"s1", "s2"} : now > StartTime /\ SendMessage(s, TxtOk))
    /\ UNCHANGED <<cliVars, histVars, adminVars>>
IdentityDraw == DrawTopic("s1") /\ UNCHANGED <<cliVars, histVars, adminVars>>
IdentityDisconnect == Disconnect("s1") /\ UNCHANGED <<cliVars, histVars, adminVars>>
IdentityTick ==
  /\ \E t \in IdentityTimes :
       /\ t > now
       /\ now' = t
  /\ out' = <<>>
  /\ ev' = Ev("tick", NoSocket, NoRoom, "ok")
  /\ UNCHANGED <<conn, roomSlug, ioRooms, rooms, socketClientIds,
                 lastLeaveByClientIdRoom, lastActionTimeByKey, lastTopicTimeByKey,
                 banlist, moderation, topics, timers, closeListeners, reqState, res>>
  /\ UNCHANGED <<cliVars, histVars, adminVars>>
IdentitySweep == Sweep /\ UNCHANGED <<cliVars, histVars, adminVars>>

IdentityNext ==
  IdentityConnect \/ IdentityJoin \/ IdentitySendMessage \/ IdentityDraw
    \/ IdentityDisconnect \/ IdentityTick \/ IdentitySweep

IdentitySpec == Init /\ [][IdentityNext]_vars

\* C31 as stated: an accepted message or topic draw of a connection is never
\* inside the waiting time that the clock of its device's identity in the
\* room prescribes, whichever connection of the device set that clock, and
\* it sets that clock.
C31_AsStated ==
  [][/\ (ev'.op = "send-message" /\ ev'.result = "ok")
          => LET k == <<ev'.room, ClientIdOf[ev'.s]>>
             IN /\ ~(/\ Has(lastActionTimeByKey, k)
                      /\ now - lastActionTimeByKey[k] < moderation.minIntervalMs)
                /\ Has(lastActionTimeByKey', k)
                /\ lastActionTimeByKey'[k] = now
     /\ (ev'.op = "draw-topic" /\ ev'.result = "ok")
          => LET k == <<ev'.room, ClientIdOf[ev'.s]>>
             IN /\ ~(/\ Has(lastTopicTimeByKey, k)
                      /\ now - lastTopicTimeByKey[k] < TOPIC_COOLDOWN_MS)
                /\ Has(lastTopicTimeByKey', k)
                /\ lastTopicTimeByKey'[k] = now]_vars

(***************************************************************************)
(* MemberBanSpec: "s1" and "s3" join room "main" and send acceptable       *)
(* messages, "s1" leaves, the admin posts BanSpec's bans and the clock     *)
(* moves past the minimum interval and to the end of the timed ban.        *)
(***************************************************************************)
\* the instants the clock of MemberBanSpec moves to
MemberBanTimes == {StartTime + DEFAULT_MIN_INTERVAL_MS, StartTime + BanDuration}

MemberBanConnect ==
  (\E s \in {"s1", "s3"} : Connect(s)) /\ UNCHANGED <<cliVars, histVars, adminVars>>
MemberBanJoin ==
  (\E s \in {"s1", "s3"} : Join(s, "main", "ann", "red", ClientIdOf[s]))
    /\ UNCHANGED <<cliVars, histVars, adminVars>>
MemberBanSend ==
  (\E s \in {"s1", "s3"} : SendMessage(s, TxtOk))
    /\ UNCHANGED <<cliVars, histVars, adminVars>>
MemberBanLeave == Leave("s1") /\ UNCHANGED <<cliVars, histVars, adminVars>>
MemberBanTick ==
  /\ \E t \in MemberBanTimes :
       /\ t > now
       /\ now' = t
  /\ out' = <<>>
  /\ ev' = Ev("tick", NoSocket, NoRoom, "ok")
  /\ UNCHANGED <<conn, roomSlug, ioRooms, rooms, socketClientIds,
                 lastLeaveByClientIdRoom, lastActionTimeByKey, lastTopicTimeByKey,
                 banlist, moderation, topics, timers, closeListeners, reqState, res>>
  /\ UNCHANGED <<cliVars, histVars, adminVars>>

MemberBanNext ==
  MemberBanConnect \/ MemberBanJoin \/ DoPostBan \/ MemberBanSend \/ MemberBanLeave
    \/ MemberBanTick

MemberBanSpec == Init /\ [][MemberBanNext]_vars

\* C32: adding a ban entry leaves every room's members, the connections and
\* the logs as they were and emits nothing; and an acceptable message of a
\* member whose identity or address an unexpired ban entry matches is handled
\* as any member's: refused only inside the minimum interval, else appended
\* with the sender still a member.
C32_BanOnlyAtJoin ==
  [][/\ ev'.op = "ban"
          => /\ \A r \in Rooms : RoomOf(rooms', r) = RoomOf(rooms, r)
             /\ conn' = conn
             /\ ioRooms' = ioRooms
             /\ out' = <<>>
     /\ (/\ ev'.op = "send-message"
         /\ ev'.result # "ignored"
         /\ ActiveBanOn(ClientIdOf[ev'.s], IpOf[ev'.s]))
          => LET s == ev'.s
                 r == ev'.room
                 k == <<r, ClientIdOf[s]>>
                 early == /\ Has(lastActionTimeByKey, k)
                          /\ now - lastActionTimeByKey[k] < moderation.minIntervalMs
             IN /\ Has(RoomOf(rooms', r).users, s)
                /\ conn'[s] = "open"
                /\ ev'.result = IF early THEN "rate-limit" ELSE "ok"
                /\ ~early => RoomOf(rooms', r).nextMessageId
                                = RoomOf(rooms, r).nextMessageId + 1]_vars

\* C32 witness: a member whose device is under an unexpired ban has just had
\* a message accepted and is still a member
C32_Witness ==
  /\ ev.op = "send-message"
  /\ ev.result = "ok"
  /\ ev.s = "s1"
  /\ ActiveBanOn(ClientIdOf["s1"], IpOf["s1"])
  /\ Has(rooms["main"].users, "s1")
  /\ rooms["main"].chatLog[Len(rooms["main"].chatLog)].type = "chat"

(***************************************************************************)
(* KickSpec: "s1" joins either room and leaves, "s2" (another tab of the   *)
(* same device) joins room "main", the admin bans and kicks "s1" from room *)
(* "main" by clientId, by address or by both, for one minute or without    *)
(* expiry, and the clock moves to the end of the minute.                   *)
(***************************************************************************)
KickModes == {"clientId", "ip", "both"}

KickConnect ==
  (\E s \in {"s1", "s2"} : Connect(s)) /\ UNCHANGED <<cliVars, histVars, adminVars>>
KickJoin ==
  (\/ \E r \in Rooms : Join("s1", r, "ann", "red", ClientIdOf["s1"])
   \/ Join("s2", "main", "bob", "blue", ClientIdOf["s2"]))
    /\ UNCHANGED <<cliVars, histVars, adminVars>>
KickLeave == Leave("s1") /\ UNCHANGED <<cliVars, histVars, adminVars>>
KickBanOnline ==
  (\E mode \in KickModes, minutes \in 0..1 : BanOnline("main", "s1", mode, minutes))
    /\ UNCHANGED <<cliVars, histVars, adminVars>>
KickTick ==
  /\ now < StartTime + BanDuration
  /\ now' = StartTime + BanDuration
  /\ out' = <<>>
  /\ ev' = Ev("tick", NoSocket, NoRoom, "ok")
  /\ UNCHANGED <<conn, roomSlug, ioRooms, rooms, socketClientIds,
                 lastLeaveByClientIdRoom, lastActionTimeByKey, lastTopicTimeByKey,
                 banlist, moderation, topics, timers, closeListeners, reqState, res>>
  /\ UNCHANGED <<cliVars, histVars, adminVars>>

KickNext == KickConnect \/ KickJoin \/ KickLeave \/ KickBanOnline \/ KickTick

KickSpec == Init /\ [][KickNext]_vars

\* C33 as stated: when the admin's ban-and-kick finds the connection (still
\* connected) among the room's members, afterwards the connection is not a
\* member of the room, has been sent force-leave with reason "banned" and is
\* closed, one entry has been appended to the room's log, and an unexpired
\* ban entry matches the member's clientId or address; and a join matched by
\* an unexpired ban entry never makes the caller a member.
C33_AsStated ==
  [][/\ (ev'.op = "ban-online" /\ ev'.result = "kicked" /\ conn[ev'.s] = "open")
          => LET s == ev'.s
                 r == ev'.room
             IN /\ ~Has(RoomOf(rooms', r).users, s)
                /\ conn'[s] = "closed"
                /\ \E i \in DOMAIN out' :
                      /\ out'[i].event = "force-leave"
                      /\ out'[i].to = {s}
                      /\ out'[i].what = "banned"
                /\ RoomOf(rooms', r).nextMessageId = RoomOf(rooms, r).nextMessageId + 1
                /\ \E it \in banlist' :
                      /\ (it.expiresAt = 0 \/ it.expiresAt > now)
                      /\ \/ (it.type = "clientId" /\ it.value = ClientIdOf[s])
                         \/ (it.type = "ip" /\ it.value = IpOf[s])
     /\ (/\ ev'.op = "join"
         /\ ActiveBanOn(ClientIdOf[ev'.s], IpOf[ev'.s])
         /\ ~Has(RoomOf(rooms, ev'.room).users, ev'.s))
          => ~Has(RoomOf(rooms', ev'.room).users, ev'.s)]_vars

(***************************************************************************)
(* EmptySpec: SweepSpec's joins, typing and disconnect, and in addition    *)
(* "s1" leaves, the admin bans and kicks "s1", and the clock moves once,   *)
(* by the inactivity limit, before the sweep runs.                         *)
(***************************************************************************)
EmptyLeave == Leave("s1") /\ UNCHANGED <<cliVars, histVars, adminVars>>
EmptyKick ==
  BanOnline("main", "s1", "clientId", 0) /\ UNCHANGED <<cliVars, histVars, adminVars>>
EmptyTick ==
  /\ now = StartTime
  /\ Tick(INACTIVITY_LIMIT_MS)
  /\ UNCHANGED <<cliVars, histVars, adminVars>>

EmptyNext ==
  SweepConnect \/ SweepJoin \/ SweepTyping \/ SweepDisconnect \/ SweepRun
    \/ EmptyLeave \/ EmptyKick \/ EmptyTick

EmptySpec == Init /\ [][EmptyNext]_vars

\* C34: after every step a room without members has an empty log and an
\* empty typing set, and no step lowers a room's id counter (a step that
\* clears the log included).
C34_EmptyRoomIsClear ==
  [][\A r \in Rooms :
       /\ DOMAIN RoomOf(rooms', r).users = {}
            => /\ RoomOf(rooms', r).chatLog = <<>>
               /\ RoomOf(rooms', r).typingUsers = {}
       /\ RoomOf(rooms', r).nextMessageId >= RoomOf(rooms, r).nextMessageId]_vars

\* C34 witness: the admin's kick has just removed the last member of room
\* "main"; the log is empty and the counter still shows the three or more
\* ids the room has assigned
C34_Witness ==
  /\ ev.op = "ban-online"
  /\ ev.result = "kicked"
  /\ DOMAIN rooms["main"].users = {}
  /\ rooms["main"].chatLog = <<>>
  /\ rooms["main"].nextMessageId >= 4

(***************************************************************************)
(* ResyncSpec: ClientSpec's page and second member, no push lost; for each *)
(* id a push brings while a snapshot request is in flight the steps of the *)
(* page are followed: the snapshot processed, a poll sent after that, its  *)
(* response processed.                                                     *)
(***************************************************************************)
\* the ids at stage from move on to stage to
Advance(from, to) == [n \in DOMAIN owed |-> IF owed[n] = from THEN to ELSE owed[n]]

ResyncConnect == OnConnect /\ UNCHANGED owed
ResyncJoinClick == JoinClick /\ UNCHANGED owed
ResyncForce == ForceResync /\ UNCHANGED owed
ResyncPushRecv ==
  /\ PushRecv
  /\ owed' = IF joined /\ syncpc # "none" /\ Head(pushq).id # 0
               THEN Put(owed, Head(pushq).id, "pushed") ELSE owed
ResyncSyncRecv == SyncRecv /\ owed' = Advance("pushed", "synced")
ResyncPollSend == PollSend /\ owed' = Advance("synced", "polling")
ResyncPollRecv == PollRecv /\ owed' = Advance("polling", "polled")

ResyncNext ==
  \/ CliConnect \/ ResyncConnect \/ ResyncJoinClick \/ SrvJoin
  \/ ResyncPollSend \/ SrvPoll \/ SrvPollTimeout \/ ResyncPollRecv
  \/ ResyncForce \/ SrvSync \/ ResyncSyncRecv
  \/ ResyncPushRecv
  \/ OtherConnect \/ OtherJoin \/ OtherChangeColor

ResyncSpec == Init /\ [][ResyncNext]_vars

\* C35 as stated: when the page processes the response of a poll it sent
\* after the snapshot was processed, every id that a push had brought while
\* that snapshot was in flight, and that the room still retains, is in the
\* view.
C35_AsStated ==
  [][(ev'.op = "page" /\ ev'.result = "poll-response")
       => \A n \in DOMAIN owed :
            (owed[n] = "polling" /\ n \in IdsOf(RoomOf(rooms', MyRoom).chatLog))
              => n \in ViewIds(view')]_vars

(***************************************************************************)
(* Activity of a member and the inactivity sweep (checked in Spec).        *)
(***************************************************************************)
\* the member actions that append to the log when accepted
AppendingOps ==
  {"send-message", "roll-1d6", "roll-dice", "draw-topic", "change-name", "change-color"}

\* C36 as stated: after an accepted chat message, dice roll, topic draw, name
\* change or color change the member's last-activity timestamp is the time
\* of the action.
C36_AsStated ==
  [][(ev'.op \in AppendingOps /\ ev'.result = "ok")
       => LET st == RoomOf(rooms', ev'.room)
          IN /\ Has(st.lastActivityTimes, ev'.s)
             /\ st.lastActivityTimes[ev'.s] = now]_vars

(***************************************************************************)
(* GuardSpec: "s1" and "s2" join room "main"; "s1" sends every member      *)
(* event - before it joins, as a member, after it left and after the sweep *)
(* evicted it; the clock moves once, by the inactivity limit.              *)
(***************************************************************************)
GuardConnect ==
  (\E s \in LogSockets : Connect(s)) /\ UNCHANGED <<cliVars, histVars, adminVars>>
GuardJoin ==
  (\E s \in LogSockets : Join(s, "main", "ann", "red", ClientIdOf[s]))
    /\ UNCHANGED <<cliVars, histVars, adminVars>>
GuardSendMessage == SendMessage("s1", TxtOk) /\ UNCHANGED <<cliVars, histVars, adminVars>>
GuardRoll ==
  (Roll1d6("s1") \/ RollDice("s1")) /\ UNCHANGED <<cliVars, histVars, adminVars>>
GuardDraw == DrawTopic("s1") /\ UNCHANGED <<cliVars, histVars, adminVars>>
GuardChangeName == ChangeName("s1", "bob") /\ UNCHANGED <<cliVars, histVars, adminVars>>
GuardChangeColor == ChangeColor("s1", "blue") /\ UNCHANGED <<cliVars, histVars, adminVars>>
GuardTyping ==
  (\E isTyping \in BOOLEAN : Typing("s1", isTyping))
    /\ UNCHANGED <<cliVars, histVars, adminVars>>
GuardLeave == Leave("s1") /\ UNCHANGED <<cliVars, histVars, adminVars>>
GuardTick ==
  /\ now = StartTime
  /\ Tick(INACTIVITY_LIMIT_MS)
  /\ UNCHANGED <<cliVars, histVars, adminVars>>
GuardSweep == Sweep /\ UNCHANGED <<cliVars, histVars, adminVars>>

GuardNext ==
  GuardConnect \/ GuardJoin \/ GuardSendMessage \/ GuardRoll \/ GuardDraw
    \/ GuardChangeName \/ GuardChangeColor \/ GuardTyping \/ GuardLeave
    \/ GuardTick \/ GuardSweep

GuardSpec == Init /\ [][GuardNext]_vars

\* the events a member sends after joining
MemberOps == AppendingOps \cup {"typing", "leave"}

\* C37: a handler of a member event that does anything but return at its
\* guards was sent by a member of the room of its connection; and a handler
\* that returns at its guards leaves the rooms, their logs and counters, the
\* connections, the identity map, the clocks, the grace markers and the ban
\* list as they were and emits nothing.
C37_NonMemberIgnored ==
  [][(ev'.op \in MemberOps)
       => /\ ev'.result # "ignored"
               => /\ roomSlug[ev'.s] # NoRoom
                  /\ Has(RoomOf(rooms, roomSlug[ev'.s]).users, ev'.s)
          /\ ev'.result = "ignored"
               => /\ rooms' = rooms
                  /\ conn' = conn
                  /\ ioRooms' = ioRooms
                  /\ roomSlug' = roomSlug
                  /\ socketClientIds' = socketClientIds
                  /\ lastLeaveByClientIdRoom' = lastLeaveByClientIdRoom
                  /\ lastActionTimeByKey' = lastActionTimeByKey
                  /\ lastTopicTimeByKey' = lastTopicTimeByKey
                  /\ banlist' = banlist
                  /\ out' = <<>>]_vars

\* C37 witness: "s1", still connected but no longer a member of its room
\* (it left, or the sweep evicted it), has just had its dice roll ignored; the
\* room keeps its log
C37_Witness ==
  /\ ev.result = "ignored"
  /\ ev.op = "roll-1d6"
  /\ conn["s1"] = "open"
  /\ roomSlug["s1"] = "main"
  /\ ~Has(rooms["main"].users, "s1")
  /\ \E i \in DOMAIN rooms["main"].chatLog : rooms["main"].chatLog[i].type = "system"
  /\ now > StartTime

(***************************************************************************)
(* RejoinSpec: "s1" and "s2" join room "main" under either name and color, *)
(* again and again; "s1" leaves, the admin bans their device, and the      *)
(* clock moves once, by half the inactivity limit.                         *)
(***************************************************************************)
RejoinConnect ==
  (\E s \in LogSockets : Connect(s)) /\ UNCHANGED <<cliVars, histVars, adminVars>>
RejoinJoin ==
  (\E s \in LogSockets, name \in Names, color \in Colors :
      Join(s, "main", name, color, ClientIdOf[s]))
    /\ UNCHANGED <<cliVars, histVars, adminVars>>
RejoinLeave == Leave("s1") /\ UNCHANGED <<cliVars, histVars, adminVars>>
RejoinBan == PostBan("clientId", "devA", 0) /\ UNCHANGED <<cliVars, histVars, adminVars>>
RejoinTick ==
  /\ now = StartTime
  /\ Tick(INACTIVITY_LIMIT_MS \div 2)
  /\ UNCHANGED <<cliVars, histVars, adminVars>>

RejoinNext == RejoinConnect \/ RejoinJoin \/ RejoinLeave \/ RejoinBan \/ RejoinTick

RejoinSpec == Init /\ [][RejoinNext]_vars

\* C38: a join sent by a connection that is in the users of the room it asks
\* for ends at the guard: the room (members with their names and colors,
\* last-activity timestamps, log, id counter), the connection, its room, the
\* identity map and the grace markers stay as they were and nothing is
\* emitted.
C38_RejoinIsNoop ==
  [][(ev'.op = "join" /\ Has(RoomOf(rooms, ev'.room).users, ev'.s))
       => /\ ev'.result = "already"
          /\ rooms' = rooms
          /\ conn' = conn
          /\ ioRooms' = ioRooms
          /\ roomSlug' = roomSlug
          /\ socketClientIds' = socketClientIds
          /\ lastLeaveByClientIdRoom' = lastLeaveByClientIdRoom
          /\ out' = <<>>]_vars

\* C38 witness: member "s1", who joined as "ann" in red when the process
\* started, has just sent a join again, later and with the room full; they
\* are still "ann" in red, active at the start
C38_Witness ==
  /\ ev.op = "join"
  /\ ev.s = "s1"
  /\ ev.result = "already"
  /\ now > StartTime
  /\ Cardinality(DOMAIN rooms["main"].users) = MAX_USERS
  /\ rooms["main"].users["s1"] = [name |-> "ann", color |-> "red"]
  /\ rooms["main"].lastActivityTimes["s1"] = StartTime

(***************************************************************************)
(* Consistency of a room's tables (checked in EmptySpec).                  *)
(***************************************************************************)
\* C39: in every room the typing set and the last-activity table hold only
\* connections that are in the room's users.
C39_TablesOfMembers ==
  \A r \in DOMAIN rooms :
     /\ rooms[r].typingUsers \subseteq DOMAIN rooms[r].users
     /\ DOMAIN rooms[r].lastActivityTimes \subseteq DOMAIN rooms[r].users

\* C39 witness: the sweep has just evicted "s2" from room "main", ten
\* minutes after it joined; "s1", typing, is the only connection in the
\* room's users, typing set and activity table
C39_Witness ==
  /\ ev.op = "sweep"
  /\ roomSlug["s2"] = "main"
  /\ DOMAIN rooms["main"].users = {"s1"}
  /\ rooms["main"].typingUsers = {"s1"}
  /\ DOMAIN rooms["main"].lastActivityTimes = {"s1"}

(***************************************************************************)
(* Shape of a retained log (checked in WindowSpec).                        *)
(***************************************************************************)
\* C40: a room's retained log, when it holds entries, holds consecutive ids
\* in ascending order, the last of them the counter's value minus one.
C40_GapFreeRun ==
  \A r \in DOMAIN rooms :
     LET log == rooms[r].chatLog
     IN \A i \in DOMAIN log : log[i].id = rooms[r].nextMessageId - 1 - (Len(log) - i)

\* C40 witness: room "main" was vacated and its log cleared; the log now
\* holds the one entry appended since, under the id that continues the
\* numbering
C40_Witness ==
  /\ "main" \in DOMAIN rooms
  /\ Len(rooms["main"].chatLog) = 1
  /\ rooms["main"].chatLog[1].id >= 3
  /\ rooms["main"].nextMessageId = rooms["main"].chatLog[1].id + 1

====
